---- MODULE Spec2Model ----
(***************************************************************************)
(* Comment moderation engine of the skill registry (convex/comments.ts and *)
(* convex/comments.handlers.ts).  Every handler is registered as a Convex  *)
(* mutation, so one handler call is one transaction: one atomic action.    *)
(***************************************************************************)
EXTENDS Integers, Sequences, FiniteSets, Bags, TLC

VARIABLES
  users,           \* table users: id -> [role, deletedAt, deactivatedAt]
  comments,        \* table comments: id -> document (domain = existing ids)
  commentReports,  \* table commentReports: a bag of rows
  auditLogs,       \* table auditLogs, in insertion order
  statEvents,      \* calls of insertStatEvent, in order
  now,             \* Date.now()
  nextCommentId,   \* the id the next inserted comment gets
  inflight,        \* calls that arrived and are not yet processed to the end
  result,          \* the last step: the call's arguments, outcome and writes
  skills,          \* table skills: slug -> [ownerUserId, createdAt, latestVersionId]
  skillVersions,   \* table skillVersions, in insertion order: the id is the index
  scheduled,       \* the tasks handed to ctx.scheduler, a bag
  analysed         \* ctx.storage: per stored file, what publish computes of its text

vars == <<users, comments, commentReports, auditLogs, statEvents, now,
          nextCommentId, inflight, result, skills, skillVersions, scheduled,
          analysed>>

db == <<comments, commentReports, auditLogs, statEvents>>

\* What publish writes, and the stored files it reads
registry == <<skills, skillVersions, scheduled, analysed>>

\* No file is stored
NoFiles == [signals |-> <<>>, fingerprint |-> <<>>]

-----------------------------------------------------------------------------
(* Bounds of the model *)

MaxAudit == 3
MaxInflight == 2

(* Program constants *)

MAX_ACTIVE_REPORTS_PER_USER == 20
AUTO_HIDE_REPORT_THRESHOLD == 3
ReasonMaxLen == 500

-----------------------------------------------------------------------------
(* Values *)

Undefined == "undefined"

UserIds == {"u1", "u2", "u3", "mod", "admin"}

RoleOf(u) == IF u = "admin" THEN "admin" ELSE IF u = "mod" THEN "moderator" ELSE "user"

SkillIds == {"s1"}

\* A string is a sequence of characters.
Reasons == {<<" ">>, <<" ", "x">>}
Bodies == {<<" ">>, <<"h", " ">>}

\* Whitespace: what String.prototype.trim removes and \s matches
IsSpace(ch) == ch \in {" ", "\t", "\n", "\r"}

RECURSIVE TrimStart(_)
TrimStart(s) ==
  IF s = <<>> THEN s
  ELSE IF IsSpace(Head(s)) THEN TrimStart(Tail(s)) ELSE s

RECURSIVE TrimEnd(_)
TrimEnd(s) ==
  IF s = <<>> THEN s
  ELSE IF IsSpace(s[Len(s)]) THEN TrimEnd(SubSeq(s, 1, Len(s) - 1)) ELSE s

\* String.prototype.trim
Trim(s) == TrimEnd(TrimStart(s))

\* String.prototype.slice(0, n)
Slice0(s, n) == SubSeq(s, 1, IF Len(s) < n THEN Len(s) ELSE n)

\* JavaScript truthiness of an optional timestamp (undefined is 0)
Truthy(t) == t # 0

-----------------------------------------------------------------------------
(* lib/access *)

requireUser(userId) == [userId |-> userId, user |-> users[userId]]

assertModeratorPasses(user) == user.role \in {"moderator", "admin"}

assertAdminPasses(user) == user.role = "admin"

PermissionError == "Forbidden"

-----------------------------------------------------------------------------
(* Outcome of one handler call: the tables after it, what it returned or    *)
(* threw, and the writes it issued.                                         *)

Outcome(c, r, a, s, error, ret, writes) ==
  [comments |-> c, commentReports |-> r, auditLogs |-> a, statEvents |-> s,
   error |-> error, ret |-> ret, writes |-> writes]

\* What a call returns that returns nothing, and what one "returns" that throws
VoidRet == [value |-> "undefined"]
NoRet == [thrown |-> TRUE]

Throw(message) ==
  Outcome(comments, commentReports, auditLogs, statEvents, message, NoRet, <<>>)

ReturnNoWrite(ret) ==
  Outcome(comments, commentReports, auditLogs, statEvents, "", ret, <<>>)

insertStatEvent(events, skillId, kind) ==
  Append(events, [skillId |-> skillId, kind |-> kind])

\* Variant: the insert replaces what the table held.
insertAuditLog_Overwrites(log, entry) == <<entry>>

\* ctx.db.insert('auditLogs', entry)
insertAuditLog(log, entry) == Append(log, entry)

AuditEntry(actor, action, commentId, metadata, at) ==
  [actorUserId |-> actor, action |-> action, targetType |-> "comment",
   targetId |-> commentId, metadata |-> metadata, createdAt |-> at]

-----------------------------------------------------------------------------
(* comments.handlers.ts *)

getCommentStatus(comment) ==
  IF comment.moderationStatus # Undefined THEN comment.moderationStatus
  ELSE IF Truthy(comment.softDeletedAt) THEN "hidden" ELSE "active"

isCommentVisible(comment) ==
  ~Truthy(comment.softDeletedAt) /\ getCommentStatus(comment) = "active"

NewComment(skillId, userId, body, createdAt) ==
  [skillId |-> skillId, userId |-> userId, body |-> body, createdAt |-> createdAt,
   softDeletedAt |-> 0, deletedBy |-> Undefined, moderationStatus |-> "active",
   moderationReason |-> Undefined, moderationNotes |-> Undefined,
   reportCount |-> 0, lastReportedAt |-> 0, hiddenAt |-> 0,
   lastReviewedAt |-> 0]

addHandler(userId, skillId, rawBody) ==
  LET body == Trim(rawBody) IN
  IF body = <<>> THEN Throw("Comment body required")
  ELSE IF skillId \notin SkillIds THEN Throw("Skill not found")
  ELSE Outcome((nextCommentId :> NewComment(skillId, userId, body, now)) @@ comments,
               commentReports, auditLogs,
               insertStatEvent(statEvents, skillId, "comment"),
               "", VoidRet, <<"insert comments", "stat comment">>)

removePatch(user, isOwner) ==
  [softDeletedAt |-> now, deletedBy |-> user, moderationStatus |-> "removed",
   moderationReason |-> IF isOwner THEN "manual.user_delete"
                                   ELSE "manual.moderator_delete",
   moderationNotes |-> Undefined, lastReviewedAt |-> now]

\* Variant: only a removed comment makes remove a no-op.
removeIsNoop_RemovedOnly(comment) == getCommentStatus(comment) = "removed"

\* Variant: the soft-delete timestamp is not looked at.
removeIsNoop_IgnoresTimestamp(comment) ==
  comment.moderationStatus \in {"hidden", "removed"}

\* The early return of removeHandler
removeIsNoop(comment) == ~isCommentVisible(comment)

\* Variant: anyone may remove.
removeAllowed_Anyone(isOwner, user) == TRUE

\* Lines 62-65: the owner passes, anyone else must pass assertModerator
removeAllowed(isOwner, user) == isOwner \/ assertModeratorPasses(user)

removeHandler(userId, commentId) ==
  LET user == requireUser(userId).user IN
  IF commentId \notin DOMAIN comments THEN Throw("Comment not found")
  ELSE
    LET comment == comments[commentId]
        isOwner == comment.userId = userId
    IN
    IF removeIsNoop(comment) THEN ReturnNoWrite(VoidRet)
    ELSE IF ~removeAllowed(isOwner, user) THEN Throw(PermissionError)
    ELSE Outcome([comments EXCEPT ![commentId] = removePatch(userId, isOwner) @@ comment],
                 commentReports,
                 insertAuditLog(auditLogs,
                        AuditEntry(userId, "comment.delete", commentId,
                                   [skillId |-> comment.skillId], now)),
                 insertStatEvent(statEvents, comment.skillId, "uncomment"),
                 "", VoidRet,
                 <<"patch comments", "stat uncomment", "insert auditLogs">>)

\* One pass of the loop of countActiveReportsForUser over the rows still to visit.
RECURSIVE countActiveLoop(_, _)
countActiveLoop(reports, count) ==
  IF reports = EmptyBag THEN count
  ELSE
    LET report == CHOOSE r \in BagToSet(reports) : TRUE
        rest == reports (-) SetToBag({report})
    IN
    IF report.commentId \notin DOMAIN comments THEN countActiveLoop(rest, count)
    ELSE IF ~isCommentVisible(comments[report.commentId]) THEN countActiveLoop(rest, count)
    ELSE
      LET ownerId == comments[report.commentId].userId IN
      IF \/ ownerId \notin DOMAIN users
         \/ Truthy(users[ownerId].deletedAt)
         \/ Truthy(users[ownerId].deactivatedAt)
      THEN countActiveLoop(rest, count)
      ELSE IF count + 1 >= MAX_ACTIVE_REPORTS_PER_USER THEN count + 1
      ELSE countActiveLoop(rest, count + 1)

\* The rows of index by_user for userId
reportsByUser(userId) ==
  LET rows == {r \in BagToSet(commentReports) : r.userId = userId}
  IN [r \in rows |-> commentReports[r]]

\* Variant: every report of the user counts, whatever became of its comment.
countActiveReportsForUser_AllRows(userId) == BagCardinality(reportsByUser(userId))

\* Variant: no report counts, so the cap is never reached.
countActiveReportsForUser_None(userId) == 0

countActiveReportsForUser(userId) == countActiveLoop(reportsByUser(userId), 0)

\* Variant: the lookup of an existing report finds nothing.
reportsByCommentUser_NoLookup(commentId, userId) == {}

\* The rows of index by_comment_user for (commentId, userId)
reportsByCommentUser(commentId, userId) ==
  {r \in BagToSet(commentReports) : r.commentId = commentId /\ r.userId = userId}

\* Variant: the by_comment query returns no row.
reportsByComment_NoRows(commentId) == EmptyBag

\* The rows of index by_comment for commentId
reportsByComment(commentId) ==
  LET rows == {r \in BagToSet(commentReports) : r.commentId = commentId}
  IN [r \in rows |-> commentReports[r]]

\* Variant: the increment is lost.
nextReportCountOf_Lost(comment) == comment.reportCount

nextReportCountOf(comment) == comment.reportCount + 1

\* Variant: the threshold is reached, not exceeded.
shouldAutoHideOf_OffByOne(nextReportCount, comment) ==
  nextReportCount >= AUTO_HIDE_REPORT_THRESHOLD /\ isCommentVisible(comment)

shouldAutoHideOf(nextReportCount, comment) ==
  nextReportCount > AUTO_HIDE_REPORT_THRESHOLD /\ isCommentVisible(comment)

reportUpdates(nextReportCount, shouldAutoHide) ==
  IF shouldAutoHide
  THEN [reportCount |-> nextReportCount, lastReportedAt |-> now,
        softDeletedAt |-> now, moderationStatus |-> "hidden",
        moderationReason |-> "auto.reports",
        moderationNotes |-> "Auto-hidden after 4 unique reports.",
        hiddenAt |-> now, lastReviewedAt |-> now, deletedBy |-> Undefined]
  ELSE [reportCount |-> nextReportCount, lastReportedAt |-> now]

ReportedRet == [ok |-> TRUE, reported |-> TRUE, alreadyReported |-> FALSE]
AlreadyReportedRet == [ok |-> TRUE, reported |-> FALSE, alreadyReported |-> TRUE]

ReportLimitError ==
  "Report limit reached. Please wait for moderation before reporting more."

reportHandler(userId, commentId, rawReason) ==
  IF \/ commentId \notin DOMAIN comments
     \/ getCommentStatus(comments[commentId]) = "removed"
  THEN Throw("Comment not found")
  ELSE
    LET comment == comments[commentId]
        reason == Trim(rawReason)
        existing == reportsByCommentUser(commentId, userId)
        nextReportCount == nextReportCountOf(comment)
        shouldAutoHide == shouldAutoHideOf(nextReportCount, comment)
        row == [commentId |-> commentId, skillId |-> comment.skillId,
                userId |-> userId, reason |-> Slice0(reason, ReasonMaxLen),
                createdAt |-> now]
    IN
    IF ~isCommentVisible(comment) THEN Throw("Comment is already hidden.")
    ELSE IF reason = <<>> THEN Throw("Report reason required.")
    ELSE IF existing # {} THEN ReturnNoWrite(AlreadyReportedRet)
    ELSE IF countActiveReportsForUser(userId) >= MAX_ACTIVE_REPORTS_PER_USER
    THEN Throw(ReportLimitError)
    ELSE Outcome([comments EXCEPT ![commentId] =
                    reportUpdates(nextReportCount, shouldAutoHide) @@ comment],
                 commentReports (+) SetToBag({row}),
                 IF shouldAutoHide
                 THEN insertAuditLog(auditLogs,
                             AuditEntry(userId, "comment.auto_hide", commentId,
                                        [skillId |-> comment.skillId,
                                         reportCount |-> nextReportCount], now))
                 ELSE auditLogs,
                 IF shouldAutoHide
                 THEN insertStatEvent(statEvents, comment.skillId, "uncomment")
                 ELSE statEvents,
                 "", ReportedRet,
                 <<"insert commentReports", "patch comments">>
                   \o (IF shouldAutoHide
                       THEN <<"stat uncomment", "insert auditLogs">> ELSE <<>>))

\* Variant: a restore leaves the soft-delete timestamp in place.
setSoftDeletedPatch_KeepsTimestamp(deleted, userId) ==
  IF deleted
  THEN [softDeletedAt |-> now, deletedBy |-> userId, moderationStatus |-> "hidden",
        moderationReason |-> "manual.moderation",
        moderationNotes |-> "Hidden by moderator.", hiddenAt |-> now,
        lastReviewedAt |-> now]
  ELSE [deletedBy |-> Undefined, moderationStatus |-> "active",
        moderationReason |-> Undefined, moderationNotes |-> Undefined,
        hiddenAt |-> 0, lastReviewedAt |-> now]

\* Variant: a restore also clears the report counter and its timestamp.
setSoftDeletedPatch_ResetsReports(deleted, userId) ==
  IF deleted
  THEN [softDeletedAt |-> now, deletedBy |-> userId, moderationStatus |-> "hidden",
        moderationReason |-> "manual.moderation",
        moderationNotes |-> "Hidden by moderator.", hiddenAt |-> now,
        lastReviewedAt |-> now]
  ELSE [softDeletedAt |-> 0, deletedBy |-> Undefined, moderationStatus |-> "active",
        moderationReason |-> Undefined, moderationNotes |-> Undefined,
        hiddenAt |-> 0, lastReviewedAt |-> now, reportCount |-> 0,
        lastReportedAt |-> 0]

setSoftDeletedPatch(deleted, userId) ==
  IF deleted
  THEN [softDeletedAt |-> now, deletedBy |-> userId, moderationStatus |-> "hidden",
        moderationReason |-> "manual.moderation",
        moderationNotes |-> "Hidden by moderator.", hiddenAt |-> now,
        lastReviewedAt |-> now]
  ELSE [softDeletedAt |-> 0, deletedBy |-> Undefined, moderationStatus |-> "active",
        moderationReason |-> Undefined, moderationNotes |-> Undefined,
        hiddenAt |-> 0, lastReviewedAt |-> now]

\* Variant: a restore emits no stat event.
setSoftDeletedStat_NoRestoreEvent(beforeVisible, afterVisible) ==
  IF beforeVisible /\ ~afterVisible THEN <<"uncomment">> ELSE <<>>

\* Lines 215-219: the stat event of setSoftDeleted, if any
setSoftDeletedStat(beforeVisible, afterVisible) ==
  IF beforeVisible /\ ~afterVisible THEN <<"uncomment">>
  ELSE IF ~beforeVisible /\ afterVisible THEN <<"comment">>
  ELSE <<>>

\* Line 187: the role gate of setSoftDeleted
setSoftDeletedAllowed(user) == assertModeratorPasses(user)

setSoftDeletedHandler(userId, commentId, deleted) ==
  LET user == requireUser(userId).user IN
  IF ~setSoftDeletedAllowed(user) THEN Throw(PermissionError)
  ELSE IF commentId \notin DOMAIN comments THEN Throw("Comment not found")
  ELSE
    LET comment == comments[commentId]
        beforeVisible == isCommentVisible(comment)
        afterVisible == ~deleted
        stat == setSoftDeletedStat(beforeVisible, afterVisible)
    IN
    Outcome([comments EXCEPT ![commentId] = setSoftDeletedPatch(deleted, userId) @@ comment],
            commentReports,
            insertAuditLog(auditLogs,
                   AuditEntry(userId,
                              IF deleted THEN "comment.hide" ELSE "comment.restore",
                              commentId, [skillId |-> comment.skillId], now)),
            IF stat = <<>> THEN statEvents
            ELSE insertStatEvent(statEvents, comment.skillId, stat[1]),
            "", VoidRet,
            <<"patch comments">>
              \o (IF stat = <<>> THEN <<>> ELSE <<"stat " \o stat[1]>>)
              \o <<"insert auditLogs">>)

DeletedRet(deleted) == [deleted |-> deleted]

\* Variant: a moderator passes the gate of hardDelete.
hardDeleteAllowed_Moderator(user) == assertModeratorPasses(user)

\* Line 233: the role gate of hardDelete
hardDeleteAllowed(user) == assertAdminPasses(user)

\* Variant: the call on a missing comment leaves an audit entry.
hardDeleteMissing_Audited(userId, commentId) ==
  Outcome(comments, commentReports,
          insertAuditLog(auditLogs,
                 AuditEntry(userId, "comment.hard_delete", commentId,
                            [skillId |-> Undefined, reportCount |-> 0], now)),
          statEvents, "", DeletedRet(FALSE), <<"insert auditLogs">>)

\* Line 235: the comment is not in the table
hardDeleteMissing(userId, commentId) == ReturnNoWrite(DeletedRet(FALSE))

hardDeleteHandler(userId, commentId) ==
  LET user == requireUser(userId).user IN
  IF ~hardDeleteAllowed(user) THEN Throw(PermissionError)
  ELSE IF commentId \notin DOMAIN comments THEN hardDeleteMissing(userId, commentId)
  ELSE
    LET comment == comments[commentId]
        beforeVisible == isCommentVisible(comment)
        reports == reportsByComment(commentId)
    IN
    Outcome([c \in DOMAIN comments \ {commentId} |-> comments[c]],
            commentReports (-) reports,
            insertAuditLog(auditLogs,
                   AuditEntry(userId, "comment.hard_delete", commentId,
                              [skillId |-> comment.skillId,
                               reportCount |-> BagCardinality(reports)], now)),
            IF beforeVisible
            THEN insertStatEvent(statEvents, comment.skillId, "uncomment")
            ELSE statEvents,
            "", DeletedRet(TRUE),
            [i \in 1..BagCardinality(reports) |-> "delete commentReports"]
              \o <<"delete comments">>
              \o (IF beforeVisible THEN <<"stat uncomment">> ELSE <<>>)
              \o <<"insert auditLogs">>)

-----------------------------------------------------------------------------
(* The state machine *)

ActiveUser(role) == [role |-> role, deletedAt |-> 0, deactivatedAt |-> 0]

\* What a report call's reads return when the call arrives: the rows of its
\* reporter and comment, and the comment's reportCount.
ReadsOfReport(userId, commentId) ==
  [rows |-> reportsByCommentUser(commentId, userId),
   reportCount |-> IF commentId \in DOMAIN comments
                   THEN comments[commentId].reportCount ELSE 0]

NoReads == [rows |-> {}, reportCount |-> 0]

\* reads: for a report call, what its reads returned when it arrived.
Step(op, userId, commentId, reason, deleted, reads, error, ret, writes) ==
  [op |-> op, userId |-> userId, commentId |-> commentId, reason |-> reason,
   deleted |-> deleted, reads |-> reads, error |-> error, ret |-> ret,
   writes |-> writes]

NoCall == Step("none", Undefined, 0, <<>>, FALSE, NoReads, "", VoidRet, <<>>)

Init ==
  /\ users = [u \in UserIds |-> ActiveUser(RoleOf(u))]
  /\ comments = <<>>
  /\ commentReports = EmptyBag
  /\ auditLogs = <<>>
  /\ statEvents = <<>>
  /\ now = 1
  /\ nextCommentId = 1
  /\ inflight = EmptyBag
  /\ skills = <<>>
  /\ skillVersions = <<>>
  /\ analysed = NoFiles
  /\ scheduled = EmptyBag
  /\ result = NoCall

\* The users who can make a call
Callers ==
  {u \in DOMAIN users : ~Truthy(users[u].deletedAt) /\ ~Truthy(users[u].deactivatedAt)}

\* The users who write comments in the model
Authors == {"u1"}

\* The comment ids the calls of Spec name: one comment's life is followed from
\* before it is added until after it is purged.  (What couples two comments,
\* the count of a reporter's active reports, is followed under SpecCap.)
CommentIdInputs == {1}

\* The model stops calling once the audit log is MaxAudit long.
WithinHorizon == Len(auditLogs) < MaxAudit

\* One processed call: the transaction commits the handler's outcome.
Commit(op, userId, commentId, reason, deleted, reads, out) ==
  /\ comments' = out.comments
  /\ commentReports' = out.commentReports
  /\ auditLogs' = out.auditLogs
  /\ statEvents' = out.statEvents
  /\ result' = Step(op, userId, commentId, reason, deleted, reads, out.error,
                    out.ret, out.writes)
  /\ UNCHANGED <<users, now, registry>>

Add(userId, skillId, body) ==
  /\ WithinHorizon
  /\ nextCommentId \in CommentIdInputs
  /\ LET out == addHandler(userId, skillId, body) IN
     /\ Commit("add", userId, nextCommentId, <<>>, FALSE, NoReads, out)
     /\ nextCommentId' = IF out.error = "" THEN nextCommentId + 1 ELSE nextCommentId
  /\ UNCHANGED inflight

Remove(userId, commentId) ==
  /\ WithinHorizon
  /\ Commit("remove", userId, commentId, <<>>, FALSE, NoReads,
            removeHandler(userId, commentId))
  /\ UNCHANGED <<nextCommentId, inflight>>

Report(userId, commentId, reason) ==
  /\ WithinHorizon
  /\ Commit("report", userId, commentId, reason, FALSE,
            ReadsOfReport(userId, commentId),
            reportHandler(userId, commentId, reason))
  /\ UNCHANGED <<nextCommentId, inflight>>

SetSoftDeleted(userId, commentId, deleted) ==
  /\ WithinHorizon
  /\ Commit("setSoftDeleted", userId, commentId, <<>>, deleted, NoReads,
            setSoftDeletedHandler(userId, commentId, deleted))
  /\ UNCHANGED <<nextCommentId, inflight>>

HardDelete(userId, commentId) ==
  /\ WithinHorizon
  /\ Commit("hardDelete", userId, commentId, <<>>, FALSE, NoReads,
            hardDeleteHandler(userId, commentId))
  /\ UNCHANGED <<nextCommentId, inflight>>

Next ==
  \/ \E u \in Authors, s \in SkillIds \cup {"s0"}, b \in Bodies : Add(u, s, b)
  \/ \E u \in Callers, c \in CommentIdInputs : Remove(u, c)
  \/ \E u \in Callers, c \in CommentIdInputs, r \in Reasons : Report(u, c, r)
  \/ \E u \in Callers, c \in CommentIdInputs, d \in BOOLEAN : SetSoftDeleted(u, c, d)
  \/ \E u \in Callers, c \in CommentIdInputs : HardDelete(u, c)

Spec == Init /\ [][Next]_vars

-----------------------------------------------------------------------------
(* Report calls in flight: a call arrives, and is processed later as one    *)
(* transaction; calls in flight at the same time are concurrent.            *)

ReportRequest(userId, commentId, reason) ==
  [userId |-> userId, commentId |-> commentId, reason |-> reason,
   reads |-> ReadsOfReport(userId, commentId)]

SubmitReport(userId, commentId, reason) ==
  /\ WithinHorizon
  /\ BagCardinality(inflight) < MaxInflight
  /\ inflight' = inflight (+) SetToBag({ReportRequest(userId, commentId, reason)})
  /\ result' = Step("submit", userId, commentId, reason, FALSE, NoReads, "",
                    VoidRet, <<>>)
  /\ UNCHANGED <<users, comments, commentReports, auditLogs, statEvents, now,
                 nextCommentId, registry>>

ProcessReport(req) ==
  /\ WithinHorizon
  /\ BagIn(req, inflight)
  /\ inflight' = inflight (-) SetToBag({req})
  /\ Commit("report", req.userId, req.commentId, req.reason, FALSE,
            req.reads,
            reportHandler(req.userId, req.commentId, req.reason))
  /\ UNCHANGED nextCommentId

NextRace ==
  \/ \E u \in Authors, s \in SkillIds, b \in Bodies : Add(u, s, b)
  \/ \E u \in Callers, c \in CommentIdInputs, r \in Reasons : SubmitReport(u, c, r)
  \/ \E req \in BagToSet(inflight) : ProcessReport(req)

SpecRace == Init /\ [][NextRace]_vars

-----------------------------------------------------------------------------
(* A comment stored before moderationStatus existed: the field is absent    *)
(* and softDeletedAt alone says whether it is hidden.  reportCount, absent  *)
(* too, is read as (reportCount ?? 0), that is 0.                           *)

LegacyComment(softDeletedAt) ==
  [NewComment("s1", "u1", <<"h">>, 1) EXCEPT
     !.moderationStatus = Undefined, !.softDeletedAt = softDeletedAt]

InitLegacy ==
  /\ users = [u \in UserIds |-> ActiveUser(RoleOf(u))]
  /\ \E t \in {0, 1} : comments = (1 :> LegacyComment(t))
  /\ commentReports = EmptyBag
  /\ auditLogs = <<>>
  /\ statEvents = <<>>
  /\ now = 1
  /\ nextCommentId = 2
  /\ inflight = EmptyBag
  /\ skills = <<>>
  /\ skillVersions = <<>>
  /\ analysed = NoFiles
  /\ scheduled = EmptyBag
  /\ result = NoCall

NextLegacy ==
  \/ \E u \in Callers, c \in CommentIdInputs : Remove(u, c)
  \/ \E u \in Callers, c \in CommentIdInputs, r \in Reasons : Report(u, c, r)
  \/ \E u \in Callers, c \in CommentIdInputs, d \in BOOLEAN : SetSoftDeleted(u, c, d)
  \/ \E u \in Callers, c \in CommentIdInputs : HardDelete(u, c)

SpecLegacy == InitLegacy /\ [][NextLegacy]_vars

-----------------------------------------------------------------------------
(* A reporter next to the cap: "u2" has reported the comments               *)
(* 1 .. MAX_ACTIVE_REPORTS_PER_USER - 1, the next three comments are not yet  *)
(* reported.  Comment 1 is by "u3", whose account may be deactivated; the   *)
(* others are by "u1".                                                      *)

CapReporter == "u2"

CapReported == 1..(MAX_ACTIVE_REPORTS_PER_USER - 1)

CapFresh == MAX_ACTIVE_REPORTS_PER_USER..(MAX_ACTIVE_REPORTS_PER_USER + 2)

CapAuthor(c) == IF c = 1 THEN "u3" ELSE "u1"

CapComment(c) ==
  IF c \in CapReported
  THEN [NewComment("s1", CapAuthor(c), <<"h">>, 1) EXCEPT
          !.reportCount = 1, !.lastReportedAt = 1]
  ELSE NewComment("s1", CapAuthor(c), <<"h">>, 1)

CapRow(c) ==
  [commentId |-> c, skillId |-> "s1", userId |-> CapReporter, reason |-> <<"x">>,
   createdAt |-> 1]

InitCap ==
  /\ \E t \in {0, 1} :
       users = [u \in UserIds |->
                  IF u = "u3" THEN [ActiveUser("user") EXCEPT !.deactivatedAt = t]
                  ELSE ActiveUser(RoleOf(u))]
  /\ comments = [c \in CapReported \cup CapFresh |-> CapComment(c)]
  /\ commentReports = SetToBag({CapRow(c) : c \in CapReported})
  /\ auditLogs = <<>>
  /\ statEvents = [c \in CapReported \cup CapFresh |-> [skillId |-> "s1", kind |-> "comment"]]
  /\ now = 1
  /\ nextCommentId = MAX_ACTIVE_REPORTS_PER_USER + 3
  /\ inflight = EmptyBag
  /\ skills = <<>>
  /\ skillVersions = <<>>
  /\ analysed = NoFiles
  /\ scheduled = EmptyBag
  /\ result = NoCall

NextCap ==
  \/ \E c \in CapFresh, r \in Reasons : Report(CapReporter, c, r)
  \/ \E c \in {2} \cup CapFresh, d \in BOOLEAN : SetSoftDeleted("mod", c, d)
  \/ \E c \in {3} : Remove("u1", c)
  \/ \E c \in {4} : HardDelete("admin", c)

SpecCap == InitCap /\ [][NextCap]_vars

-----------------------------------------------------------------------------
(* comments.ts: the query listBySkill.  A query reads one snapshot of the    *)
(* tables and writes nothing.                                               *)

DefaultListLimit == 50

\* args.limit: <<>> is an absent limit
ListLimits == {<<>>, <<1>>, <<2>>}

\* The ids of set S, newest first (order('desc'))
RECURSIVE OrderDesc(_)
OrderDesc(S) ==
  IF S = {} THEN <<>>
  ELSE LET top == CHOOSE x \in S : \A y \in S : y <= x
       IN <<top>> \o OrderDesc(S \ {top})

\* The rows of index by_skill for skillId, newest first, at most limit of them
commentsBySkill(skillId, limit) ==
  LET ids == OrderDesc({c \in DOMAIN comments : comments[c].skillId = skillId})
  IN SubSeq(ids, 1, IF Len(ids) < limit THEN Len(ids) ELSE limit)

\* Variant: nothing is filtered out.
listFilter_KeepsAll(ids) == ids

\* comments.filter((comment) => isCommentVisible(comment))
listFilter(ids) ==
  LET keep(c) == isCommentVisible(comments[c]) IN SelectSeq(ids, keep)

\* What listBySkill returns: the comment and its author (of whom lib/public
\* keeps the public fields; here the id), or null for a missing author.
listBySkillHandler(skillId, limitArg) ==
  LET limit == IF limitArg = <<>> THEN DefaultListLimit ELSE limitArg[1]
      visible == listFilter(commentsBySkill(skillId, limit))
  IN [items |-> [i \in 1..Len(visible) |->
                   [id |-> visible[i],
                    comment |-> comments[visible[i]],
                    user |-> IF comments[visible[i]].userId \in DOMAIN users
                             THEN comments[visible[i]].userId ELSE "null"]]]

ListBySkill(skillId, limitArg) ==
  /\ WithinHorizon
  /\ result' = Step("listBySkill", Undefined, 0, <<>>, FALSE, NoReads, "",
                    listBySkillHandler(skillId, limitArg), <<>>)
  /\ UNCHANGED <<users, comments, commentReports, auditLogs, statEvents, now,
                 nextCommentId, inflight, registry>>

\* Two comments of skill "s1": comment 1 was stored before moderationStatus
\* existed, comment 2 after.
ListComments == {1, 2}

InitList ==
  /\ users = [u \in UserIds |-> ActiveUser(RoleOf(u))]
  /\ \E t \in {0, 1} :
       comments = (1 :> LegacyComment(t)) @@ (2 :> NewComment("s1", "u1", <<"h">>, 1))
  /\ commentReports = EmptyBag
  /\ auditLogs = <<>>
  /\ statEvents = <<>>
  /\ now = 1
  /\ nextCommentId = 3
  /\ inflight = EmptyBag
  /\ skills = <<>>
  /\ skillVersions = <<>>
  /\ analysed = NoFiles
  /\ scheduled = EmptyBag
  /\ result = NoCall

NextList ==
  \/ \E s \in SkillIds, l \in ListLimits : ListBySkill(s, l)
  \/ \E c \in ListComments : Remove("u1", c)
  \/ \E u \in {"u2", "u3"}, c \in ListComments : Report(u, c, <<"x">>)
  \/ \E c \in ListComments, d \in BOOLEAN : SetSoftDeleted("mod", c, d)
  \/ \E c \in ListComments : HardDelete("admin", c)

SpecList == InitList /\ [][NextList]_vars

-----------------------------------------------------------------------------
(* The quality gate of publish: trust tier, score and decision.  These are   *)
(* pure functions; result holds the call and, once applied, what it returned.*)

\* A duration in milliseconds, as whole days plus the milliseconds (less
\* than a day) on top: 30 days of milliseconds do not fit a 32-bit integer.
DayMs == 24 * 60 * 60 * 1000

Ms(days, ms) == [days |-> days, ms |-> ms]

\* a < b for durations
LessMs(a, b) == a.days < b.days \/ (a.days = b.days /\ a.ms < b.ms)

TRUST_TIER_ACCOUNT_AGE_LOW_MS == Ms(30, 0)
TRUST_TIER_ACCOUNT_AGE_MEDIUM_MS == Ms(90, 0)
TRUST_TIER_SKILLS_LOW == 10
TRUST_TIER_SKILLS_MEDIUM == 50
QUALITY_ACTIVITY_LIMIT == 60

TrustTiers == {"low", "medium", "trusted"}

\* Variant: both the age and the skill count must be low for the low tier.
getTrustTier_BothLow(accountAgeMs, totalSkills) ==
  IF LessMs(accountAgeMs, TRUST_TIER_ACCOUNT_AGE_LOW_MS)
     /\ totalSkills < TRUST_TIER_SKILLS_LOW
  THEN "low"
  ELSE IF LessMs(accountAgeMs, TRUST_TIER_ACCOUNT_AGE_MEDIUM_MS)
          \/ totalSkills < TRUST_TIER_SKILLS_MEDIUM
  THEN "medium"
  ELSE "trusted"

getTrustTier(accountAgeMs, totalSkills) ==
  IF LessMs(accountAgeMs, TRUST_TIER_ACCOUNT_AGE_LOW_MS)
     \/ totalSkills < TRUST_TIER_SKILLS_LOW
  THEN "low"
  ELSE IF LessMs(accountAgeMs, TRUST_TIER_ACCOUNT_AGE_MEDIUM_MS)
          \/ totalSkills < TRUST_TIER_SKILLS_MEDIUM
  THEN "medium"
  ELSE "trusted"

\* uniqueWordRatio is the quotient unique / words (0 without words), kept as
\* the pair it is computed from; ratio < 0.45 is 100 * unique < 45 * words.
Ratio(unique, words) == [unique |-> unique, words |-> words]

RatioBelow45(ratio) == 100 * ratio.unique < 45 * ratio.words

Min(a, b) == IF a < b THEN a ELSE b
Max(a, b) == IF a > b THEN a ELSE b

\* Variant: the penalty falls on the documents of 80 words and more.
wordsPenalty_Inverted(signals) == IF signals.bodyWords < 80 THEN 0 ELSE 24

\* Line 205: if (signals.bodyWords < 80) score -= 24
wordsPenalty(signals) == IF signals.bodyWords < 80 THEN 24 ELSE 0

\* Variant: the score is not floored.
scoreFloor_None(score) == score

\* Line 211: Math.max(0, score)
scoreFloor(score) == Max(0, score)

scoreQuality(signals) ==
  LET s1 == 100 - (IF signals.bodyChars < 250 THEN 28 ELSE 0)
      s2 == s1 - wordsPenalty(signals)
      s3 == s2 - (IF RatioBelow45(signals.uniqueWordRatio) THEN 14 ELSE 0)
      s4 == s3 - (IF signals.headingCount < 2 THEN 10 ELSE 0)
      s5 == s4 - (IF signals.bulletCount < 3 THEN 8 ELSE 0)
      s6 == s5 - Min(28, signals.templateMarkerHits * 9)
      s7 == s6 - (IF signals.genericSummary THEN 20 ELSE 0)
  IN scoreFloor(s7)

\* Variant: the word floors of the low and the trusted tier are exchanged.
rejectWordsThreshold_Reversed(trustTier) ==
  IF trustTier = "low" THEN 28 ELSE IF trustTier = "medium" THEN 35 ELSE 45

rejectWordsThreshold(trustTier) ==
  IF trustTier = "low" THEN 45 ELSE IF trustTier = "medium" THEN 35 ELSE 28

rejectCharsThreshold(trustTier) ==
  IF trustTier = "low" THEN 260 ELSE IF trustTier = "medium" THEN 180 ELSE 140

\* Variant: a score equal to the threshold is quarantined.
quarantineScoreThreshold_OneHigher(trustTier) ==
  IF trustTier = "low" THEN 73 ELSE IF trustTier = "medium" THEN 61 ELSE 51

quarantineScoreThreshold(trustTier) ==
  IF trustTier = "low" THEN 72 ELSE IF trustTier = "medium" THEN 60 ELSE 50

similarityRejectThreshold(trustTier) ==
  IF trustTier = "low" THEN 5 ELSE IF trustTier = "medium" THEN 8 ELSE 12

\* Variant: the duplicate count does not reject.
hardReject_ThinOnly(signals, trustTier, similarRecentCount) ==
  \/ signals.bodyWords < rejectWordsThreshold(trustTier)
  \/ signals.bodyChars < rejectCharsThreshold(trustTier)
  \/ (signals.templateMarkerHits >= 3 /\ signals.bodyWords < 120)

hardReject(signals, trustTier, similarRecentCount) ==
  \/ signals.bodyWords < rejectWordsThreshold(trustTier)
  \/ signals.bodyChars < rejectCharsThreshold(trustTier)
  \/ (signals.templateMarkerHits >= 3 /\ signals.bodyWords < 120)
  \/ similarRecentCount >= similarityRejectThreshold(trustTier)

SpamReason == "Skill appears to be repeated template spam from this account."
ThinReason ==
  "Skill content is too thin or templated. Add meaningful, specific documentation."
QuarantineReason ==
  "Skill quality is low and requires moderation review before being listed."
PassReason == "Quality checks passed."

\* Variant: a rejection is always reported as thin content.
rejectReason_AlwaysThin(trustTier, similarRecentCount) == ThinReason

\* Lines 233-236: the reason of a rejection
rejectReason(trustTier, similarRecentCount) ==
  IF similarRecentCount >= similarityRejectThreshold(trustTier)
  THEN SpamReason ELSE ThinReason

\* The signals an assessment carries: all but the structural fingerprint
assessedSignals(signals) ==
  [bodyChars |-> signals.bodyChars, bodyWords |-> signals.bodyWords,
   uniqueWordRatio |-> signals.uniqueWordRatio,
   headingCount |-> signals.headingCount, bulletCount |-> signals.bulletCount,
   templateMarkerHits |-> signals.templateMarkerHits,
   genericSummary |-> signals.genericSummary]

Assessment(score, decision, reason, trustTier, similarRecentCount, signals) ==
  [score |-> score, decision |-> decision, reason |-> reason,
   trustTier |-> trustTier, similarRecentCount |-> similarRecentCount,
   signals |-> assessedSignals(signals)]

evaluateQuality(signals, trustTier, similarRecentCount) ==
  LET score == scoreQuality(signals) IN
  IF hardReject(signals, trustTier, similarRecentCount)
  THEN Assessment(score, "reject", rejectReason(trustTier, similarRecentCount),
                  trustTier, similarRecentCount, signals)
  ELSE IF score < quarantineScoreThreshold(trustTier)
  THEN Assessment(score, "quarantine", QuarantineReason, trustTier,
                  similarRecentCount, signals)
  ELSE Assessment(score, "pass", PassReason, trustTier, similarRecentCount, signals)

-----------------------------------------------------------------------------
(* Calls of the quality gate's functions: Init draws the call, the action    *)
(* applies the function.                                                    *)

\* Account ages around the tier boundaries of 30 and 90 days
AgeInputs == {Ms(d, r) : d \in {0, 29, 30, 89, 90, 400}, r \in {0, 1, DayMs - 1}}

\* Owner skill counts: the activity query lists at most QUALITY_ACTIVITY_LIMIT
SkillCountInputs == {0, 9, 10, 11, 49, 50, QUALITY_ACTIVITY_LIMIT}

WordInputs == {0, 27, 28, 34, 35, 44, 45, 79, 80, 119, 120}
CharInputs == {139, 140, 179, 180, 249, 250, 259, 260}
MarkerHitInputs == {0, 1, 2, 3, 4, 8}
SimilarInputs == {0, 4, 5, 7, 8, 11, 12}

\* Unique-word counts of a text of n words: a ratio below 0.45, the smallest
\* ratio that is not below 0.45, and all words distinct
UniqueInputs(n) ==
  IF n = 0 THEN {0} ELSE {(45 * n - 1) \div 100, (45 * n + 99) \div 100, n}

\* Signals a document can have: a word has at least 2 characters, and a
\* marker phrase at least 2 words.
SignalInputs ==
  {[bodyChars |-> ch, bodyWords |-> w,
    uniqueWordRatio |-> IF w = 0 THEN Ratio(0, 1) ELSE Ratio(u, w),
    headingCount |-> h, bulletCount |-> b, templateMarkerHits |-> t,
    genericSummary |-> g, structuralFingerprint |-> "p:l"] :
     <<ch, w, u, h, b, t, g>> \in
       {x \in CharInputs \X WordInputs \X (0..120) \X {1, 2} \X {2, 3}
                \X MarkerHitInputs \X BOOLEAN :
          /\ 2 * x[2] <= x[1]
          /\ x[3] \in UniqueInputs(x[2])
          /\ 2 * x[6] <= x[2]}}

TrustTierCall(accountAgeMs, totalSkills) ==
  [op |-> "getTrustTier", applied |-> FALSE,
   accountAgeMs |-> accountAgeMs, totalSkills |-> totalSkills]

QualityCall(signals, trustTier, similarRecentCount) ==
  [op |-> "evaluateQuality", applied |-> FALSE, signals |-> signals,
   trustTier |-> trustTier, similarRecentCount |-> similarRecentCount]

\* scoreQuality for a document and for one that differs in word count only
ScoreCall(signals, otherWords) ==
  [op |-> "scoreQuality", applied |-> FALSE, signals |-> signals,
   otherWords |-> otherWords]

\* evaluateQuality for one document and duplicate count under every tier
TiersCall(signals, similarRecentCount) ==
  [op |-> "evaluateQuality.tiers", applied |-> FALSE, signals |-> signals,
   similarRecentCount |-> similarRecentCount]

InitQuality ==
  /\ users = [u \in UserIds |-> ActiveUser(RoleOf(u))]
  /\ comments = <<>>
  /\ commentReports = EmptyBag
  /\ auditLogs = <<>>
  /\ statEvents = <<>>
  /\ now = 1
  /\ nextCommentId = 1
  /\ inflight = EmptyBag
  /\ skills = <<>>
  /\ skillVersions = <<>>
  /\ analysed = NoFiles
  /\ scheduled = EmptyBag
  /\ \/ \E a \in AgeInputs, n \in SkillCountInputs : result = TrustTierCall(a, n)
     \/ \E s \in SignalInputs, t \in TrustTiers, n \in SimilarInputs :
          result = QualityCall(s, t, n)
     \/ \E s \in SignalInputs, w \in WordInputs : result = ScoreCall(s, w)
     \/ \E s \in SignalInputs, n \in SimilarInputs : result = TiersCall(s, n)

GetTrustTier ==
  /\ result.op = "getTrustTier"
  /\ ~result.applied
  /\ result' = [op |-> "getTrustTier", applied |-> TRUE,
                accountAgeMs |-> result.accountAgeMs,
                totalSkills |-> result.totalSkills,
                ret |-> getTrustTier(result.accountAgeMs, result.totalSkills)]
  /\ UNCHANGED <<users, comments, commentReports, auditLogs, statEvents, now,
                 nextCommentId, inflight, registry>>

EvaluateQuality ==
  /\ result.op = "evaluateQuality"
  /\ ~result.applied
  /\ result' = [op |-> "evaluateQuality", applied |-> TRUE,
                signals |-> result.signals, trustTier |-> result.trustTier,
                similarRecentCount |-> result.similarRecentCount,
                ret |-> evaluateQuality(result.signals, result.trustTier,
                                        result.similarRecentCount)]
  /\ UNCHANGED <<users, comments, commentReports, auditLogs, statEvents, now,
                 nextCommentId, inflight, registry>>

ScoreQuality ==
  /\ result.op = "scoreQuality"
  /\ ~result.applied
  /\ result' = [op |-> "scoreQuality", applied |-> TRUE,
                signals |-> result.signals, otherWords |-> result.otherWords,
                ret |-> scoreQuality(result.signals),
                retOther |-> scoreQuality([result.signals EXCEPT
                                             !.bodyWords = result.otherWords])]
  /\ UNCHANGED <<users, comments, commentReports, auditLogs, statEvents, now,
                 nextCommentId, inflight, registry>>

EvaluateQualityTiers ==
  /\ result.op = "evaluateQuality.tiers"
  /\ ~result.applied
  /\ result' = [op |-> "evaluateQuality.tiers", applied |-> TRUE,
                signals |-> result.signals,
                similarRecentCount |-> result.similarRecentCount,
                ret |-> [t \in TrustTiers |->
                           evaluateQuality(result.signals, t,
                                           result.similarRecentCount)]]
  /\ UNCHANGED <<users, comments, commentReports, auditLogs, statEvents, now,
                 nextCommentId, inflight, registry>>

NextQuality ==
  GetTrustTier \/ EvaluateQuality \/ ScoreQuality \/ EvaluateQualityTiers

SpecQuality == InitQuality /\ [][NextQuality]_vars

(* comments.ts: the text functions of the quality gate.  A text is a         *)
(* sequence of characters, "\n" ends a line.                                 *)

LowerLetters ==
  <<"a", "b", "c", "d", "e", "f", "g", "h", "i", "j", "k", "l", "m",
    "n", "o", "p", "q", "r", "s", "t", "u", "v", "w", "x", "y", "z">>
UpperLetters ==
  <<"A", "B", "C", "D", "E", "F", "G", "H", "I", "J", "K", "L", "M",
    "N", "O", "P", "Q", "R", "S", "T", "U", "V", "W", "X", "Y", "Z">>
DigitChars == {"0", "1", "2", "3", "4", "5", "6", "7", "8", "9"}

\* String.prototype.toLowerCase
toLowerCase(text) ==
  [i \in 1..Len(text) |->
     IF \E k \in 1..26 : UpperLetters[k] = text[i]
     THEN LowerLetters[CHOOSE k \in 1..26 : UpperLetters[k] = text[i]]
     ELSE text[i]]

\* [a-z0-9] and [a-z0-9'-]
IsWordStart(ch) == ch \in DigitChars \/ \E k \in 1..26 : LowerLetters[k] = ch
IsWordChar(ch) == IsWordStart(ch) \/ ch \in {"'", "-"}

\* String.prototype.startsWith(lit, i - 1)
StartsWithAt(s, i, lit) ==
  i + Len(lit) - 1 <= Len(s) /\ SubSeq(s, i, i + Len(lit) - 1) = lit

\* String.prototype.slice(i - 1)
SliceFrom(s, i) == SubSeq(s, i, Len(s))

\* The index behind the longest run of whitespace (\s*) that starts at i
RECURSIVE SkipWhitespace(_, _)
SkipWhitespace(s, i) ==
  IF i <= Len(s) /\ IsSpace(s[i]) THEN SkipWhitespace(s, i + 1) ELSE i

\* The index behind the longest run of digits (\d*) that starts at i
RECURSIVE SkipDigits(_, _)
SkipDigits(s, i) ==
  IF i <= Len(s) /\ s[i] \in DigitChars THEN SkipDigits(s, i + 1) ELSE i

\* String.prototype.indexOf(lit, i - 1) + 1: the first index from i on at
\* which lit occurs, 0 if there is none
IndexOfFrom(s, lit, i) ==
  LET hits == {j \in i..(Len(s) - Len(lit) + 1) : s[j] = lit[1] /\ StartsWithAt(s, j, lit)}
  IN IF hits = {} THEN 0 ELSE CHOOSE j \in hits : \A k \in hits : j <= k

\* ^ of a regular expression with the flag m: the start of the text or of
\* a line
IsLineStart(s, i) == i = 1 \/ s[i - 1] \in {"\n", "\r"}

\* The regular expression of line 130 matched at index i: the index behind
\* the match, 0 if it does not match there.  After "---" the greedy \s* is
\* followed by \n, so the engine gives back whitespace until a line feed is
\* left for \n and a "\n---" follows somewhere behind it; the lazy
\* [\s\S]*? stops at the first such "\n---"; the closing \s* takes all the
\* whitespace that follows, and nothing is left for \n?.
FrontmatterEnd(s, i) ==
  IF ~(IsLineStart(s, i) /\ StartsWithAt(s, i, <<"-", "-", "-">>)) THEN 0
  ELSE LET afterSpace == SkipWhitespace(s, i + 3)
           feeds == {n \in (i + 3)..(afterSpace - 1) :
                       /\ s[n] = "\n"
                       /\ IndexOfFrom(s, <<"\n", "-", "-", "-">>, n + 1) # 0}
       IN IF feeds = {} THEN 0
          ELSE LET feed == CHOOSE n \in feeds : \A k \in feeds : k <= n
                   close == IndexOfFrom(s, <<"\n", "-", "-", "-">>, feed + 1)
               IN SkipWhitespace(s, close + 4)

\* Lines 129-131: replace (no flag g) removes the first match
stripFrontmatter(raw) ==
  LET starts == {i \in 1..Len(raw) : FrontmatterEnd(raw, i) # 0}
  IN IF starts = {} THEN raw
     ELSE LET start == CHOOSE i \in starts : \A k \in starts : i <= k
          IN SubSeq(raw, 1, start - 1) \o SliceFrom(raw, FrontmatterEnd(raw, start))

\* The index behind the token [a-z0-9'-]* that continues at i
RECURSIVE TokenEnd(_, _)
TokenEnd(s, i) ==
  IF i <= Len(s) /\ IsWordChar(s[i]) THEN TokenEnd(s, i + 1) ELSE i

\* A token of the match is running at index i - 1: the characters before i
\* are ' or - back to a letter or digit
RECURSIVE InToken(_, _)
InToken(s, i) ==
  IF i = 1 THEN FALSE
  ELSE IF IsWordStart(s[i - 1]) THEN TRUE
  ELSE IF IsWordChar(s[i - 1]) THEN InToken(s, i - 1)
  ELSE FALSE

\* String.prototype.match(/[a-z0-9][a-z0-9'-]*/g): a token starts at each
\* letter or digit that no token before it has taken, and runs as far as
\* [a-z0-9'-] goes
MatchTokens(s) ==
  LET starts == {i \in 1..Len(s) : IsWordStart(s[i]) /\ ~InToken(s, i)}
      nth(k) == CHOOSE i \in starts : Cardinality({j \in starts : j <= i}) = k
  IN [k \in 1..Cardinality(starts) |-> SubSeq(s, nth(k), TokenEnd(s, nth(k) + 1) - 1)]

\* Lines 133-135
tokenizeWords(text) ==
  SelectSeq(MatchTokens(toLowerCase(text)), LAMBDA word : Len(word) > 1)

\* Lines 137-142
wordBucket(text) ==
  LET words == Len(tokenizeWords(text))
  IN IF words <= 2 THEN <<"s">> ELSE IF words <= 6 THEN <<"m">> ELSE <<"l">>

\* String.prototype.split('\n'), from index i on
RECURSIVE SplitLinesFrom(_, _)
SplitLinesFrom(s, i) ==
  LET feed == IndexOfFrom(s, <<"\n">>, i)
  IN IF feed = 0 THEN <<SliceFrom(s, i)>>
     ELSE <<SubSeq(s, i, feed - 1)>> \o SplitLinesFrom(s, feed + 1)

SplitLines(s) == SplitLinesFrom(s, 1)

\* Array.prototype.join(sep)
RECURSIVE Join(_, _)
Join(parts, sep) ==
  IF parts = <<>> THEN <<>>
  ELSE IF Len(parts) = 1 THEN parts[1]
  ELSE parts[1] \o sep \o Join(Tail(parts), sep)

\* /^[-*]\s+/ and /^\d+\.\s+/ on a line: the index behind the match, 0 if
\* the line does not match
BulletEnd(line) ==
  IF Len(line) >= 2 /\ line[1] \in {"-", "*"} /\ IsSpace(line[2])
  THEN SkipWhitespace(line, 2) ELSE 0

NumberedEnd(line) ==
  LET dot == SkipDigits(line, 1)
  IN IF dot > 1 /\ dot + 1 <= Len(line) /\ line[dot] = "." /\ IsSpace(line[dot + 1])
     THEN SkipWhitespace(line, dot + 1) ELSE 0

\* .slice(0, 80) of line 150
FingerprintMaxLines == 80

\* Lines 153-160: the token of one trimmed, non-empty line
lineToken(line) ==
  IF StartsWithAt(line, 1, <<"#", "#", "#", " ">>)
  THEN <<"h", "3", ":">> \o wordBucket(SliceFrom(line, 5))
  ELSE IF StartsWithAt(line, 1, <<"#", "#", " ">>)
  THEN <<"h", "2", ":">> \o wordBucket(SliceFrom(line, 4))
  ELSE IF StartsWithAt(line, 1, <<"#", " ">>)
  THEN <<"h", "1", ":">> \o wordBucket(SliceFrom(line, 3))
  ELSE IF BulletEnd(line) # 0
  THEN <<"b", ":">> \o wordBucket(SliceFrom(line, BulletEnd(line)))
  ELSE IF NumberedEnd(line) # 0
  THEN <<"n", ":">> \o wordBucket(SliceFrom(line, NumberedEnd(line)))
  ELSE <<"p", ":">> \o wordBucket(line)

\* Lines 146-150: the lines the fingerprint is taken of
fingerprintLines(body) ==
  LET split == SplitLines(body)
  IN Slice0(SelectSeq([i \in 1..Len(split) |-> Trim(split[i])],
                      LAMBDA line : line # <<>>),
            FingerprintMaxLines)

\* Lines 144-162
toStructuralFingerprint(markdown) ==
  LET lines == fingerprintLines(stripFrontmatter(markdown))
  IN Join([i \in 1..Len(lines) |-> lineToken(lines[i])], <<"|">>)

-----------------------------------------------------------------------------

(* Calls of toStructuralFingerprint on two documents that are compared       *)

JoinLines(lines) == Join(lines, <<"\n">>)

RECURSIVE RepeatWord(_)
RepeatWord(n) ==
  IF n = 0 THEN <<>>
  ELSE IF n = 1 THEN <<"a", "a">>
  ELSE <<"a", "a", " ">> \o RepeatWord(n - 1)

\* Lines of documents whose structure is compared: a blank line, a line of
\* three dashes, paragraphs of one and of three words, and a heading
StructLines ==
  {<<>>, <<"-", "-", "-">>, <<"z", "z">>,
   <<"a", "a", " ", "b", "b", " ", "c", "c">>, <<"#", " ", "a", "a">>}

StructDocs == UNION {[1..n -> StructLines] : n \in 0..4}

\* What a line starts with, and the numbers of words that follow
PrefixInputs ==
  {<<>>, <<"#", " ">>, <<"#", "#", " ">>, <<"#", "#", "#", " ">>,
   <<"#", "#", "#", "#", " ">>, <<"#">>, <<"#", "\t">>,
   <<"-", " ">>, <<"*", " ", " ">>, <<"-">>,
   <<"1", ".", " ">>, <<"1", "0", ".", " ">>, <<"1", ".">>}

WordCountInputs == {0, 1, 2, 3, 6, 7}

LineInputs ==
  {p \o RepeatWord(n) : p \in PrefixInputs, n \in WordCountInputs}
    \cup {<<"a", " ", "b", " ", "c">>,
          <<"A", "A", " ", "B", "b", " ", "d", "o", "n", "'", "t">>,
          <<"-", " ", "x", "-", "y", " ", "a", "a", " ", "b", "b">>}

\* Documents around the limit of FingerprintMaxLines lines
LongTailLines == {<<>>, <<"#", " ", "a", "a">>, <<"a", "a", " ", "b", "b", " ", "c", "c">>}

LongTails == UNION {[1..k -> LongTailLines] : k \in 0..2}

LongFiller(n) == [i \in 1..n |-> <<"z", "z">>]

LongDocPairs ==
  {<<LongFiller(n) \o x[1], LongFiller(n) \o x[2]>> :
     n \in {FingerprintMaxLines - 1, FingerprintMaxLines},
     x \in LongTails \X LongTails}

\* The pairs of documents that are compared: a document and the same with
\* one line replaced, two one-line documents, two long documents
DocPairInputs ==
  {<<JoinLines(d), JoinLines([d EXCEPT ![i] = l])>> :
     <<d, i, l>> \in {x \in StructDocs \X (1..4) \X StructLines : x[2] <= Len(x[1])}}
    \cup {<<JoinLines(d), JoinLines(d)>> : d \in StructDocs}
    \cup (LineInputs \X LineInputs)
    \cup {<<JoinLines(x[1]), JoinLines(x[2])>> : x \in LongDocPairs}

FingerprintCall(markdown, other) ==
  [op |-> "toStructuralFingerprint", applied |-> FALSE,
   markdown |-> markdown, other |-> other]

InitFingerprint ==
  /\ users = [u \in UserIds |-> ActiveUser(RoleOf(u))]
  /\ comments = <<>>
  /\ commentReports = EmptyBag
  /\ auditLogs = <<>>
  /\ statEvents = <<>>
  /\ now = 1
  /\ nextCommentId = 1
  /\ inflight = EmptyBag
  /\ skills = <<>>
  /\ skillVersions = <<>>
  /\ analysed = NoFiles
  /\ scheduled = EmptyBag
  /\ \E pair \in DocPairInputs : result = FingerprintCall(pair[1], pair[2])

ToStructuralFingerprint ==
  /\ result.op = "toStructuralFingerprint"
  /\ ~result.applied
  /\ result' = [op |-> "toStructuralFingerprint", applied |-> TRUE,
                markdown |-> result.markdown, other |-> result.other,
                ret |-> toStructuralFingerprint(result.markdown),
                retOther |-> toStructuralFingerprint(result.other)]
  /\ UNCHANGED <<users, comments, commentReports, auditLogs, statEvents, now,
                 nextCommentId, inflight, registry>>

NextFingerprint == ToStructuralFingerprint

SpecFingerprint == InitFingerprint /\ [][NextFingerprint]_vars

-----------------------------------------------------------------------------

(* comments.ts: computeQualitySignals and publishVersionForUser.  publish    *)
(* runs in a Convex action: every ctx.runQuery and ctx.runMutation is a      *)
(* transaction of its own, and other calls can run between two of them.     *)

QUALITY_WINDOW_MS == 24 * 60 * 60 * 1000
MAX_TOTAL_BYTES == 50 * 1024 * 1024

TEMPLATE_MARKERS ==
  <<<<"e", "x", "p", "e", "r", "t", " ", "g", "u", "i", "d", "a", "n", "c", "e", " ", "f",
      "o", "r">>,
    <<"p", "r", "a", "c", "t", "i", "c", "a", "l", " ", "s", "k", "i", "l", "l", " ", "g",
        "u", "i", "d", "a", "n", "c", "e">>,
    <<"s", "t", "e", "p", "-", "b", "y", "-", "s", "t", "e", "p", " ", "t", "u", "t", "o",
        "r", "i", "a", "l", "s">>,
    <<"t", "i", "p", "s", " ", "a", "n", "d", " ", "t", "e", "c", "h", "n", "i", "q", "u",
        "e", "s">>,
    <<"p", "r", "o", "j", "e", "c", "t", " ", "i", "d", "e", "a", "s">>,
    <<"r", "e", "s", "o", "u", "r", "c", "e", " ", "r", "e", "c", "o", "m", "m", "e", "n",
        "d", "a", "t", "i", "o", "n", "s">>,
    <<"h", "e", "l", "p", " ", "w", "i", "t", "h", " ", "t", "h", "i", "s", " ", "s", "k",
        "i", "l", "l">>,
    <<"l", "e", "a", "r", "n", "i", "n", "g", " ", "g", "u", "i", "d", "a", "n", "c", "e">>>>

\* /^#{1,3}\s+/ on a trimmed line
IsHeadingLine(line) ==
  \E k \in 1..3 : /\ Len(line) > k
                  /\ \A i \in 1..k : line[i] = "#"
                  /\ IsSpace(line[k + 1])

\* /^expert guidance for [a-z0-9-]+\.?$/
IsGenericSummary(summary) ==
  LET prefix == <<"e", "x", "p", "e", "r", "t", " ", "g", "u", "i", "d", "a", "n", "c",
      "e", " ", "f", "o", "r", " ">>
      rest == SliceFrom(summary, Len(prefix) + 1)
      name == IF rest # <<>> /\ rest[Len(rest)] = "."
              THEN SubSeq(rest, 1, Len(rest) - 1) ELSE rest
  IN /\ StartsWithAt(summary, 1, prefix)
     /\ name # <<>>
     /\ \A i \in 1..Len(name) : IsWordStart(name[i]) \/ name[i] = "-"

\* Lines 174-200.  summary is <<>> when the document declares none, else
\* <<text>>.
computeQualitySignals(readmeText, summary) ==
  LET body == stripFrontmatter(readmeText)
      words == tokenizeWords(body)
      lines == SplitLines(body)
      bodyLower == toLowerCase(body)
      summaryText == toLowerCase(Trim(IF summary = <<>> THEN <<>> ELSE summary[1]))
  IN [bodyChars |-> Cardinality({i \in 1..Len(body) : ~IsSpace(body[i])}),
      bodyWords |-> Len(words),
      uniqueWordRatio |->
        IF Len(words) # 0
        THEN Ratio(Cardinality({words[i] : i \in 1..Len(words)}), Len(words))
        ELSE Ratio(0, 1),
      headingCount |->
        Cardinality({i \in 1..Len(lines) : IsHeadingLine(Trim(lines[i]))}),
      bulletCount |->
        Cardinality({i \in 1..Len(lines) : BulletEnd(Trim(lines[i])) # 0}),
      templateMarkerHits |->
        Cardinality({k \in 1..Len(TEMPLATE_MARKERS) :
                       IndexOfFrom(bodyLower, TEMPLATE_MARKERS[k], 1) # 0}),
      genericSummary |-> IsGenericSummary(summaryText),
      structuralFingerprint |-> toStructuralFingerprint(readmeText)]

\* parseFrontmatter and getFrontmatterMetadata (convex/lib/skills), as far as
\* line 382-388 uses them: the description a leading block declares
frontmatterDescription(readmeText) ==
  LET lines == SplitLines(readmeText)
      key == <<"d", "e", "s", "c", "r", "i", "p", "t", "i", "o", "n", ":", " ">>
      closing == {i \in 2..Len(lines) : lines[i] = <<"-", "-", "-">>}
      last == IF closing = {} THEN 0
              ELSE CHOOSE i \in closing : \A k \in closing : i <= k
      declared == {i \in 2..(last - 1) : StartsWithAt(lines[i], 1, key)}
  IN IF lines[1] = <<"-", "-", "-">> /\ declared # {}
     THEN <<SliceFrom(lines[CHOOSE i \in declared : \A k \in declared : i <= k],
                      Len(key) + 1)>>
     ELSE <<>>

-----------------------------------------------------------------------------
(* The documents in file storage.  A stored file never changes.             *)

\* 676 distinct words of six letters
Word(i) ==
  <<"w", "o", "r", "d", LowerLetters[(i \div 26) + 1], LowerLetters[(i % 26) + 1]>>

\* n words, the words from, from + 1, ... taken modulo distinct
RECURSIVE Sentence(_, _, _)
Sentence(from, n, distinct) ==
  IF n = 0 THEN <<>>
  ELSE IF n = 1 THEN Word(from % distinct)
  ELSE Word(from % distinct) \o <<" ">> \o Sentence(from + 1, n - 1, distinct)

\* Two headings, three bullets and a paragraph: 45 words, 276 characters
TemplateLines(distinct) ==
  <<<<"#", " ">> \o Sentence(0, 3, distinct),
    <<"#", "#", " ">> \o Sentence(3, 3, distinct),
    <<"-", " ">> \o Sentence(6, 7, distinct),
    <<"-", " ">> \o Sentence(13, 7, distinct),
    <<"-", " ">> \o Sentence(20, 7, distinct),
    Sentence(27, 18, distinct)>>

\* All words distinct
GoodText == JoinLines(TemplateLines(45))

\* The same lines with 10 distinct words
CopyText == JoinLines(TemplateLines(10))

\* A heading of two words
ThinText == <<"#", " ">> \o Sentence(0, 2, 45)

\* GoodText and one more paragraph
OtherText == JoinLines(TemplateLines(45) \o <<Sentence(45, 3, 48)>>)

\* GoodText behind a metadata block with a generic description
MetaText ==
  JoinLines(<<<<"-", "-", "-">>, <<"d", "e", "s", "c", "r", "i", "p", "t", "i", "o", "n",
      ":", " ", "E", "x", "p", "e", "r", "t", " ", "g", "u", "i", "d", "a", "n", "c", "e",
      " ", "f", "o", "r", " ", "w", "o", "r", "d", ".">>, <<"-", "-", "-">>>>
              \o TemplateLines(45))

Storage ==
  [id \in {"good", "copy", "thin", "other", "meta", "notes"} |->
     IF id = "good" THEN GoodText
     ELSE IF id = "copy" THEN CopyText
     ELSE IF id = "thin" THEN ThinText
     ELSE IF id = "other" THEN OtherText
     ELSE IF id = "meta" THEN MetaText
     ELSE <<"n", "o", "t", "e", "s">>]

\* A storage id whose file is gone
MissingStorageId == "gone"

\* computeQualitySignals (line 403) and toStructuralFingerprint (line 423)
\* of the stored documents
StoredSignals ==
  [id \in DOMAIN Storage |->
     computeQualitySignals(Storage[id], frontmatterDescription(Storage[id]))]

StoredFingerprint == [id \in DOMAIN Storage |-> toStructuralFingerprint(Storage[id])]

\* The value of analysed: a stored file never changes, so what the two
\* functions return for it is the same in every call
StoredFiles == [signals |-> StoredSignals, fingerprint |-> StoredFingerprint]

-----------------------------------------------------------------------------
(* publishVersionForUser *)

SkillMdPath == <<"S", "K", "I", "L", "L", ".", "m", "d">>

\* sanitizePath and isTextFile (convex/lib/skills): a path that leaves the
\* bundle is no path, a picture is no text
sanitizePath(path) == IF StartsWithAt(path, 1, <<".", ".", "/">>) THEN <<>> ELSE path

isTextFile(path) ==
  ~(Len(path) >= 4 /\ SliceFrom(path, Len(path) - 3) = <<".", "p", "n", "g">>)

\* semver.valid
semverValid(version) == version \in {<<"1", ".", "0", ".", "0">>, <<"1", ".", "0", ".", "1">>}

\* requireGitHubAccountAge (convex/lib/githubAccount): it throws for "u3"
requireGitHubAccountAgePasses(userId) == userId # "u3"

GitHubAccountAgeError == "GitHub account is too new"

\* /^[a-z0-9][a-z0-9-]*$/
slugIsUrlSafe(slug) ==
  /\ slug # <<>>
  /\ IsWordStart(slug[1])
  /\ \A i \in 2..Len(slug) : IsWordStart(slug[i]) \/ slug[i] = "-"

\* Line 363: safeFiles.reduce((sum, file) => sum + file.size, 0)
RECURSIVE totalSize(_)
totalSize(files) ==
  IF files = <<>> THEN 0 ELSE Head(files).size + totalSize(Tail(files))

IsReadmePath(path) ==
  toLowerCase(path) \in {<<"s", "k", "i", "l", "l", ".", "m", "d">>, <<"s", "k", "i", "l",
      "l", "s", ".", "m", "d">>}

\* Array.prototype.find of lines 368-370 and 417-420: <<>> or <<file>>
findReadmeFile(files) ==
  LET found == {i \in 1..Len(files) : IsReadmePath(files[i].path)}
  IN IF found = {} THEN <<>>
     ELSE <<files[CHOOSE i \in found : \A k \in found : i <= k]>>

\* A duration as days and milliseconds
ToMs(t) == Ms(t \div DayMs, t % DayMs)

\* a - b for two times given as days and milliseconds
SubMs(a, b) ==
  IF a.ms >= b.ms THEN Ms(a.days - b.days, a.ms - b.ms)
  ELSE Ms(a.days - b.days - 1, a.ms + DayMs - b.ms)

\* internal.skills.getOwnerSkillActivityInternal: the slugs of the owner's
\* skills, at most limit of them (no owner of the model has more)
getOwnerSkillActivityInternal(ownerUserId, limit) ==
  {s \in DOMAIN skills : skills[s].ownerUserId = ownerUserId}

\* Lines 407-410
recentCandidates(ownerActivity, slug) ==
  {s \in ownerActivity :
     /\ s # slug
     /\ skills[s].createdAt >= now - QUALITY_WINDOW_MS
     /\ skills[s].latestVersionId # 0}

\* Lines 413-421: the candidates whose version and primary document are
\* found, with the storage id of the document
candidateReadme(s) ==
  IF skills[s].latestVersionId \in DOMAIN skillVersions
  THEN findReadmeFile(skillVersions[skills[s].latestVersionId].files)
  ELSE <<>>

\* Variant: the skill under the submitted slug and the skills older than the
\* window are candidates too.
similarRecentCountOf_AllSkills(ownerActivity, slug, fingerprint) ==
  Cardinality({s \in ownerActivity :
                 /\ skills[s].latestVersionId # 0
                 /\ candidateReadme(s) # <<>>
                 /\ analysed.fingerprint[candidateReadme(s)[1].storageId] = fingerprint})

\* Variant: a candidate whose version or primary document is not found is
\* counted instead of skipped.
similarRecentCountOf_Unskipped(ownerActivity, slug, fingerprint) ==
  Cardinality({s \in recentCandidates(ownerActivity, slug) :
                 \/ candidateReadme(s) = <<>>
                 \/ analysed.fingerprint[candidateReadme(s)[1].storageId] = fingerprint})

\* Lines 411-426
similarRecentCountOf(ownerActivity, slug, fingerprint) ==
  Cardinality({s \in recentCandidates(ownerActivity, slug) :
                 /\ candidateReadme(s) # <<>>
                 /\ analysed.fingerprint[candidateReadme(s)[1].storageId] = fingerprint})

\* Line 422: fetchText throws for a candidate whose document is gone
candidateMissing(ownerActivity, slug) ==
  \E s \in recentCandidates(ownerActivity, slug) :
    /\ candidateReadme(s) # <<>>
    /\ candidateReadme(s)[1].storageId \notin DOMAIN analysed.signals

\* Lines 548-583, the part on the assessment: <<>> or <<_clawhubQuality>>
mergeSourceIntoMetadata(qualityAssessment) ==
  IF qualityAssessment = <<>> THEN <<>>
  ELSE <<[score |-> qualityAssessment[1].score,
          decision |-> qualityAssessment[1].decision,
          trustTier |-> qualityAssessment[1].trustTier,
          similarRecentCount |-> qualityAssessment[1].similarRecentCount,
          signals |-> qualityAssessment[1].signals,
          reason |-> qualityAssessment[1].reason,
          evaluatedAt |-> now]>>

\* Variant: the quality gate runs for an existing slug too.
gateApplies_Always(isNewSkill) == TRUE

\* Line 391: if (isNewSkill)
gateApplies(isNewSkill) == isNewSkill

\* Variant: a rejected publish goes on.
gateThrows_Never(assessment) == FALSE

\* Line 433: if (qualityAssessment.decision === 'reject')
gateThrows(assessment) == assessment.decision = "reject"

\* Variant: the assessment is not handed to insertVersion.
insertedAssessment_Dropped(qualityAssessment) == <<>>

\* Lines 504-513: the qualityAssessment argument of insertVersion
insertedAssessment(qualityAssessment) == qualityAssessment

\* internal.skills.insertVersion: the skill is created if the slug is new,
\* the version is inserted and becomes the skill's latest version
insertVersionSkills(userId, slug, versionId) ==
  IF slug \in DOMAIN skills
  THEN [skills EXCEPT ![slug].latestVersionId = versionId]
  ELSE skills @@ (slug :> [ownerUserId |-> userId, createdAt |-> now,
                           latestVersionId |-> versionId])

insertVersionRow(userId, slug, version, files, metadata, qualityAssessment) ==
  [slug |-> slug, version |-> version, files |-> files, createdBy |-> userId,
   createdAt |-> now, metadata |-> metadata,
   qualityAssessment |-> qualityAssessment]

PublishResult(slug, versionId) == [skillId |-> slug, versionId |-> versionId]

\* Lines 516-543: the tasks publish hands to the scheduler
followUpTasks(slug, versionId) ==
  SetToBag({[fn |-> "vt.scanWithVirusTotal", target |-> versionId],
            [fn |-> "llmEval.evaluateWithLlm", target |-> versionId],
            [fn |-> "githubBackupsNode.backupSkillForPublishInternal",
             target |-> versionId],
            [fn |-> "webhooks.sendDiscordWebhook", target |-> versionId]})

\* A call of publishVersionForUser and how far it is: pc is the transaction
\* it runs next; slug, isNewSkill, qualityAssessment and versionId are its
\* local variables.
PublishCall(userId, args) ==
  [op |-> "publish", pc |-> "lookup", userId |-> userId, args |-> args,
   slug |-> <<>>, isNewSkill |-> FALSE, qualityAssessment |-> <<>>,
   versionId |-> 0]

PublishStep(step, call, error, ret) ==
  [op |-> "publish", step |-> step, call |-> call, error |-> error, ret |-> ret]

\* The call throws: it is over and has written nothing in this step
PublishFails(p, step, call, message) ==
  /\ inflight' = inflight (-) SetToBag({p})
  /\ result' = PublishStep(step, call, message, NoRet)
  /\ UNCHANGED <<users, comments, commentReports, auditLogs, statEvents, now,
                 nextCommentId, registry>>

\* Lines 328-343: the arguments are checked, the slug is looked up
PublishLookup(p) ==
  /\ BagIn(p, inflight)
  /\ p.pc = "lookup"
  /\ LET version == Trim(p.args.version)
         slug == toLowerCase(Trim(p.args.slug))
         displayName == Trim(p.args.displayName)
         call == [p EXCEPT !.pc = "gate", !.slug = slug,
                           !.isNewSkill = slug \notin DOMAIN skills]
     IN IF slug = <<>> \/ displayName = <<>>
        THEN PublishFails(p, "lookup", p, "Slug and display name required")
        ELSE IF ~slugIsUrlSafe(slug)
        THEN PublishFails(p, "lookup", p, "Slug must be lowercase and url-safe")
        ELSE IF ~semverValid(version)
        THEN PublishFails(p, "lookup", p, "Version must be valid semver")
        ELSE IF ~requireGitHubAccountAgePasses(p.userId)
        THEN PublishFails(p, "lookup", p, GitHubAccountAgeError)
        ELSE /\ inflight' = (inflight (-) SetToBag({p})) (+) SetToBag({call})
             /\ result' = PublishStep("lookup", call, "", VoidRet)
             /\ UNCHANGED <<users, comments, commentReports, auditLogs,
                            statEvents, now, nextCommentId, registry>>

\* Lines 345-436: the files are checked, the primary document is read, and
\* for a new slug the gate decides.  The reads of this part see rows that no
\* call changes (the owner's account, versions, stored files) and the skills
\* table, read once by getOwnerSkillActivityInternal.
PublishGate(p) ==
  /\ BagIn(p, inflight)
  /\ p.pc = "gate"
  /\ LET files == p.args.files
         safeFiles == [i \in 1..Len(files) |->
                         [files[i] EXCEPT !.path = sanitizePath(files[i].path)]]
         totalBytes == totalSize(safeFiles)
         readmeFile == findReadmeFile(safeFiles)
         ownerCreatedAt == users[p.userId].createdAt
         ownerActivity == getOwnerSkillActivityInternal(p.userId, QUALITY_ACTIVITY_LIMIT)
         trustTier == getTrustTier(SubMs(ToMs(now), ownerCreatedAt),
                                   Cardinality(ownerActivity))
         qualitySignals == analysed.signals[readmeFile[1].storageId]
         similarRecentCount ==
           similarRecentCountOf(ownerActivity, p.slug, qualitySignals.structuralFingerprint)
         assessment == evaluateQuality(qualitySignals, trustTier, similarRecentCount)
         assessed == [p EXCEPT !.pc = "insert", !.qualityAssessment = <<assessment>>]
         skipped == [p EXCEPT !.pc = "insert"]
     IN IF \E i \in 1..Len(safeFiles) : safeFiles[i].path = <<>>
        THEN PublishFails(p, "gate", p, "Invalid file paths")
        ELSE IF \E i \in 1..Len(safeFiles) : ~isTextFile(safeFiles[i].path)
        THEN PublishFails(p, "gate", p, "Only text-based files are allowed")
        ELSE IF totalBytes > MAX_TOTAL_BYTES
        THEN PublishFails(p, "gate", p, "Skill bundle exceeds 50MB limit")
        ELSE IF readmeFile = <<>>
        THEN PublishFails(p, "gate", p, "SKILL.md is required")
        ELSE IF readmeFile[1].storageId \notin DOMAIN analysed.signals
        THEN PublishFails(p, "gate", p, "File missing in storage")
        ELSE IF gateApplies(p.isNewSkill) /\ candidateMissing(ownerActivity, p.slug)
        THEN PublishFails(p, "gate", p, "File missing in storage")
        ELSE IF gateApplies(p.isNewSkill) /\ gateThrows(assessment)
        THEN PublishFails(p, "gate", assessed, assessment.reason)
        ELSE /\ inflight' = (inflight (-) SetToBag({p}))
                              (+) SetToBag({IF gateApplies(p.isNewSkill)
                                            THEN assessed ELSE skipped})
             /\ result' = PublishStep("gate",
                                      IF gateApplies(p.isNewSkill)
                                      THEN assessed ELSE skipped, "", VoidRet)
             /\ UNCHANGED <<users, comments, commentReports, auditLogs,
                            statEvents, now, nextCommentId, registry>>

\* Lines 438-514: the other files are read, the embedding is generated (the
\* embedding service fails or not), and insertVersion runs
PublishInsert(p, embeddingOk) ==
  /\ BagIn(p, inflight)
  /\ p.pc = "insert"
  /\ LET files == p.args.files
         versionId == Len(skillVersions) + 1
         call == [p EXCEPT !.pc = "schedule", !.versionId = versionId]
     IN IF \E i \in 1..Len(files) :
             /\ ~(Len(files[i].path) >= 3
                    /\ toLowerCase(SliceFrom(files[i].path,
                        Len(files[i].path) - 2)) = <<".", "m", "d">>)
             /\ files[i].storageId \notin DOMAIN analysed.signals
        THEN PublishFails(p, "insert", p, "File missing in storage")
        ELSE IF ~embeddingOk
        THEN PublishFails(p, "insert", p, "Embedding failed. Please try again.")
        ELSE /\ skills' = insertVersionSkills(p.userId, p.slug, versionId)
             /\ skillVersions' =
                  Append(skillVersions,
                         insertVersionRow(p.userId, p.slug, Trim(p.args.version),
                                          files,
                                          mergeSourceIntoMetadata(p.qualityAssessment),
                                          insertedAssessment(p.qualityAssessment)))
             /\ inflight' = (inflight (-) SetToBag({p})) (+) SetToBag({call})
             /\ result' = PublishStep("insert", call, "", VoidRet)
             /\ UNCHANGED <<users, comments, commentReports, auditLogs,
                            statEvents, now, nextCommentId, scheduled, analysed>>

\* Lines 516-545: the follow-up tasks are scheduled and the call returns
PublishSchedule(p) ==
  /\ BagIn(p, inflight)
  /\ p.pc = "schedule"
  /\ scheduled' = scheduled (+) followUpTasks(p.slug, p.versionId)
  /\ inflight' = inflight (-) SetToBag({p})
  /\ result' = PublishStep("return", p, "", PublishResult(p.slug, p.versionId))
  /\ UNCHANGED <<users, comments, commentReports, auditLogs, statEvents, now,
                 nextCommentId, skills, skillVersions, analysed>>

-----------------------------------------------------------------------------
(* Publish calls of one owner, "u1" *)

MaxPublished == 3
MaxVersionsPerSkill == 2

PublishOwner == "u1"

\* The slugs the owner publishes under, in the order they are taken
Slugs == <<<<"a", "1">>, <<"a", "2">>, <<"a", "3">>, <<"a", "4">>, <<"a", "5">>, <<"a", "6">>>>

\* The documents the owner submits
ReadmeInputs == {"good", "copy", "thin"}

SkillMd(storageId) ==
  [path |-> SkillMdPath, size |-> 1000, storageId |-> storageId]

PublishArgs(slug, displayName, version, files) ==
  [slug |-> slug, displayName |-> displayName, version |-> version,
   files |-> files]

ValidArgs(slug, storageId) ==
  PublishArgs(slug, <<"N">>, <<"1", ".", "0", ".", "0">>, <<SkillMd(storageId)>>)

\* Arguments that make the call throw before the gate, or in insertVersion's
\* step; and arguments that differ from valid ones in form only
OtherArgs ==
  {PublishArgs(<<>>, <<"N">>, <<"1", ".", "0", ".", "0">>, <<SkillMd("good")>>),
   PublishArgs(<<"a", "1">>, <<" ">>, <<"1", ".", "0", ".", "0">>, <<SkillMd("good")>>),
   PublishArgs(<<"a", "_", "1">>, <<"N">>, <<"1", ".", "0", ".", "0">>, <<SkillMd("good")>>),
   PublishArgs(<<"a", "1">>, <<"N">>, <<"o", "n", "e">>, <<SkillMd("good")>>),
   PublishArgs(<<"a", "1">>, <<"N">>, <<"1", ".", "0", ".", "0">>, <<>>),
   PublishArgs(<<"a", "1">>, <<"N">>, <<"1", ".", "0", ".", "0">>,
               <<SkillMd("good"), [path |-> <<".", ".", "/", "x", ".", "m", "d">>,
                   size |-> 1, storageId |-> "notes"]>>),
   PublishArgs(<<"a", "1">>, <<"N">>, <<"1", ".", "0", ".", "0">>,
               <<SkillMd("good"), [path |-> <<"x", ".", "p", "n", "g">>, size |-> 1,
                   storageId |-> "notes"]>>),
   PublishArgs(<<"a", "1">>, <<"N">>, <<"1", ".", "0", ".", "0">>,
               <<SkillMd("good"), [path |-> <<"b", "i", "g", ".", "t", "x", "t">>,
                   size |-> MAX_TOTAL_BYTES, storageId |-> "notes"]>>),
   PublishArgs(<<"a", "1">>, <<"N">>, <<"1", ".", "0", ".", "0">>,
       <<SkillMd(MissingStorageId)>>),
   PublishArgs(<<"a", "1">>, <<"N">>, <<"1", ".", "0", ".", "0">>,
               <<SkillMd("good"), [path |-> <<"x", ".", "t", "x", "t">>, size |-> 1,
                   storageId |-> MissingStorageId]>>),
   PublishArgs(<<" ", "A", "1", " ">>, <<"N", " ">>, <<" ", "1", ".", "0", ".", "1">>,
               <<[path |-> <<"s", "k", "i", "l", "l", "s", ".", "M", "D">>, size |-> 1000,
                   storageId |-> "meta"],
                 [path |-> <<"x", ".", "t", "x", "t">>, size |-> 1, storageId |-> "notes"]>>)}

\* The versions published in the run: those of the slugs of Slugs
PublishedVersions ==
  {v \in 1..Len(skillVersions) : \E k \in 1..Len(Slugs) : skillVersions[v].slug = Slugs[k]}

VersionsOf(slug) == {v \in 1..Len(skillVersions) : skillVersions[v].slug = slug}

\* The new slugs a call may name: the first slug not yet taken, and the one
\* behind it if a call in flight names the first
FreshSlugs ==
  LET free == {k \in 1..Len(Slugs) : Slugs[k] \notin DOMAIN skills}
      first == CHOOSE k \in free : \A j \in free : k <= j
  IN IF free = {} THEN {}
     ELSE {Slugs[first]}
            \cup {Slugs[k] : k \in {j \in free : /\ j = first + 1
                                                 /\ \E q \in BagToSet(inflight) :
                                                      q.args.slug = Slugs[first]}}

\* The existing slug a call may name: the first, until it has
\* MaxVersionsPerSkill versions
UpdateSlugs ==
  {s \in {Slugs[1]} : s \in DOMAIN skills /\ Cardinality(VersionsOf(s)) < MaxVersionsPerSkill}

SubmitPublish(userId, args) ==
  /\ inflight' = inflight (+) SetToBag({PublishCall(userId, args)})
  /\ result' = PublishStep("call", PublishCall(userId, args), "", VoidRet)
  /\ UNCHANGED <<users, comments, commentReports, auditLogs, statEvents, now,
                 nextCommentId, registry>>

\* The times Date.now() takes: a skill created at 1 is inside the window of
\* a publish at QUALITY_WINDOW_MS + 1 and outside at QUALITY_WINDOW_MS + 2
ClockInputs == {1, QUALITY_WINDOW_MS + 1, QUALITY_WINDOW_MS + 2}

Tick(t) ==
  /\ t > now
  /\ now' = t
  /\ UNCHANGED <<users, comments, commentReports, auditLogs, statEvents,
                 nextCommentId, inflight, result, registry>>

\* Accounts with their creation time, in days and milliseconds
PublishUser(role, createdAt) ==
  [role |-> role, deletedAt |-> 0, deactivatedAt |-> 0, createdAt |-> createdAt]

\* What the owner published before: nothing, or ten skills, one every
\* QUALITY_WINDOW_MS + 1 milliseconds, each with GoodText as its document
PriorSlugs ==
  <<<<"o", "0">>, <<"o", "1">>, <<"o", "2">>, <<"o", "3">>, <<"o", "4">>, <<"o", "5">>,
      <<"o", "6">>, <<"o", "7">>, <<"o", "8">>, <<"o", "9">>>>

PriorCreatedAt(k) == 1 - (Len(PriorSlugs) + 1 - k) * (QUALITY_WINDOW_MS + 1)

PriorVersion(userId, slug, createdAt, storageId, signals, trustTier) ==
  LET assessment == <<evaluateQuality(signals, trustTier, 0)>>
  IN [slug |-> slug, version |-> <<"1", ".", "0", ".", "0">>, files |-> <<SkillMd(storageId)>>,
      createdBy |-> userId, createdAt |-> createdAt,
      metadata |-> <<[score |-> assessment[1].score,
                      decision |-> assessment[1].decision,
                      trustTier |-> assessment[1].trustTier,
                      similarRecentCount |-> assessment[1].similarRecentCount,
                      signals |-> assessment[1].signals,
                      reason |-> assessment[1].reason,
                      evaluatedAt |-> createdAt]>>,
      qualityAssessment |-> assessment]

\* A skill of another owner, "u2", with GoodText as its document
ForeignSlug == <<"x", "1">>

InitPublish ==
  /\ comments = <<>>
  /\ commentReports = EmptyBag
  /\ auditLogs = <<>>
  /\ statEvents = <<>>
  /\ now = 1
  /\ nextCommentId = 1
  /\ inflight = EmptyBag
  /\ result = NoCall
  /\ scheduled = EmptyBag
  /\ \E established \in BOOLEAN, files \in {StoredFiles} :
       /\ analysed = files
       /\ users = [u \in UserIds |->
                     PublishUser(RoleOf(u),
                                 IF u = PublishOwner /\ established
                                 THEN Ms(-40, 0) ELSE Ms(0, 0))]
       /\ skillVersions =
            (IF established
             THEN [k \in 1..Len(PriorSlugs) |->
                     PriorVersion(PublishOwner, PriorSlugs[k], PriorCreatedAt(k),
                                  "good", files.signals["good"], "low")]
             ELSE <<>>)
              \o <<PriorVersion("u2", ForeignSlug, 1, "good", files.signals["good"], "low")>>
       /\ skills =
            [s \in (IF established THEN {PriorSlugs[k] : k \in 1..Len(PriorSlugs)}
                    ELSE {}) \cup {ForeignSlug} |->
               IF s = ForeignSlug
               THEN [ownerUserId |-> "u2", createdAt |-> 1,
                     latestVersionId |-> IF established THEN Len(PriorSlugs) + 1 ELSE 1]
               ELSE LET k == CHOOSE j \in 1..Len(PriorSlugs) : PriorSlugs[j] = s
                    IN [ownerUserId |-> PublishOwner,
                        createdAt |-> PriorCreatedAt(k), latestVersionId |-> k]]

\* One call at a time, until MaxPublished versions are published
MayPublish ==
  /\ inflight = EmptyBag
  /\ Cardinality(PublishedVersions) < MaxPublished

\* Calls that throw before the gate read nothing of the skills: the model
\* makes them while nothing is published.
NextPublish ==
  \/ \E s \in FreshSlugs \cup UpdateSlugs, d \in ReadmeInputs :
       MayPublish /\ SubmitPublish(PublishOwner, ValidArgs(s, d))
  \/ \E args \in OtherArgs :
       /\ MayPublish
       /\ PublishedVersions = {}
       /\ SubmitPublish(PublishOwner, args)
  \/ /\ MayPublish
     /\ PublishedVersions = {}
     /\ SubmitPublish("u3", ValidArgs(Slugs[1], "good"))
  \/ \E p \in BagToSet(inflight) : PublishLookup(p)
  \/ \E p \in BagToSet(inflight) : PublishGate(p)
  \/ \E p \in BagToSet(inflight), embeddingOk \in BOOLEAN : PublishInsert(p, embeddingOk)
  \/ \E p \in BagToSet(inflight) : PublishSchedule(p)
  \/ \E t \in ClockInputs : Tick(t)

SpecPublish == InitPublish /\ [][NextPublish]_vars

\* The owner, new to the registry, republishes: every call names a new slug
\* and submits GoodText or CopyText, which have one fingerprint, or ThinText.
\* The embedding service does not fail.
InitRepublish == InitPublish /\ users[PublishOwner].createdAt = Ms(0, 0)

NextRepublish ==
  \/ \E s \in FreshSlugs, d \in ReadmeInputs :
       inflight = EmptyBag /\ SubmitPublish(PublishOwner, ValidArgs(s, d))
  \/ \E p \in BagToSet(inflight) : PublishLookup(p)
  \/ \E p \in BagToSet(inflight) : PublishGate(p)
  \/ \E p \in BagToSet(inflight) : PublishInsert(p, TRUE)
  \/ \E p \in BagToSet(inflight) : PublishSchedule(p)
  \/ \E t \in ClockInputs : Tick(t)

SpecRepublish == InitRepublish /\ [][NextRepublish]_vars

-----------------------------------------------------------------------------

-----------------------------------------------------------------------------
(* The duplicate scan over entries of every kind the activity can list.     *)
(* Lines 396-400 and 413-420 let an entry be without latestVersionId, its   *)
(* version be gone, and a version be without primary document.              *)

\* The id of a version that is no longer in skillVersions
MissingVersionId == 99

\* The owner's skills before the calls, all created at 1: without latest
\* version, with a version that is gone, with a version without primary
\* document, with GoodText, with OtherText, and with a primary document
\* that is gone from storage
ScanSlugs ==
  <<<<"n", "0">>, <<"n", "1">>, <<"n", "2">>, <<"n", "3">>, <<"n", "4">>, <<"n", "5">>>>

ScanVersions(files) ==
  <<PriorVersion("u2", ForeignSlug, 1, "good", files.signals["good"], "low"),
    [PriorVersion(PublishOwner, ScanSlugs[3], 1, "good", files.signals["good"], "low")
       EXCEPT !.files = <<[path |-> <<"x", ".", "t", "x", "t">>, size |-> 1,
                           storageId |-> "notes"]>>],
    PriorVersion(PublishOwner, ScanSlugs[4], 1, "good", files.signals["good"], "low"),
    PriorVersion(PublishOwner, ScanSlugs[5], 1, "other", files.signals["other"], "low"),
    PriorVersion(PublishOwner, ScanSlugs[6], 1, MissingStorageId,
                 files.signals["good"], "low")>>

ScanLatest(k) ==
  IF k = 1 THEN 0 ELSE IF k = 2 THEN MissingVersionId ELSE k - 1

InitScan ==
  /\ comments = <<>>
  /\ commentReports = EmptyBag
  /\ auditLogs = <<>>
  /\ statEvents = <<>>
  /\ now = 1
  /\ nextCommentId = 1
  /\ inflight = EmptyBag
  /\ result = NoCall
  /\ scheduled = EmptyBag
  /\ users = [u \in UserIds |-> PublishUser(RoleOf(u), Ms(0, 0))]
  /\ \E gone \in BOOLEAN, files \in {StoredFiles} :
       /\ analysed = files
       /\ skillVersions = SubSeq(ScanVersions(files), 1, IF gone THEN 5 ELSE 4)
       /\ skills =
            [s \in {ForeignSlug} \cup {ScanSlugs[k] : k \in 1..(IF gone THEN 6 ELSE 5)} |->
               IF s = ForeignSlug
               THEN [ownerUserId |-> "u2", createdAt |-> 1, latestVersionId |-> 1]
               ELSE [ownerUserId |-> PublishOwner, createdAt |-> 1,
                     latestVersionId |->
                       ScanLatest(CHOOSE k \in 1..Len(ScanSlugs) : ScanSlugs[k] = s)]]

\* The documents submitted
ScanInputs == {"good", "other"}

\* A call names a new slug, or the slug a call in flight names: both find
\* the slug new, and the second to reach the gate finds the other's skill
\* among its entries
ScanSlugInputs == FreshSlugs \cup {q.args.slug : q \in BagToSet(inflight)}

MayScan ==
  /\ BagCardinality(inflight) < MaxInflight
  /\ Cardinality(PublishedVersions) + BagCardinality(inflight) < MaxPublished

NextScan ==
  \/ \E s \in ScanSlugInputs, d \in ScanInputs :
       MayScan /\ SubmitPublish(PublishOwner, ValidArgs(s, d))
  \/ \E p \in BagToSet(inflight) : PublishLookup(p)
  \/ \E p \in BagToSet(inflight) : PublishGate(p)
  \/ \E p \in BagToSet(inflight) : PublishInsert(p, TRUE)
  \/ \E p \in BagToSet(inflight) : PublishSchedule(p)
  \/ \E t \in ClockInputs : Tick(t)

SpecScan == InitScan /\ [][NextScan]_vars

-----------------------------------------------------------------------------
(* Publish calls of one new owner that are processed concurrently.  The     *)
(* handler is an action, not a transaction: the reads of lines 392-426 and  *)
(* the insert of line 479 are separate steps, and calls interleave between  *)
(* them.                                                                    *)

\* A new call names a new slug that no call in flight names
ConcurrentSlugInputs == FreshSlugs \ {q.args.slug : q \in BagToSet(inflight)}

NextConcurrent ==
  \/ \E s \in ConcurrentSlugInputs :
       /\ BagCardinality(inflight) < MaxInflight
       /\ SubmitPublish(PublishOwner, ValidArgs(s, "good"))
  \/ \E p \in BagToSet(inflight) : PublishLookup(p)
  \/ \E p \in BagToSet(inflight) : PublishGate(p)
  \/ \E p \in BagToSet(inflight) : PublishInsert(p, TRUE)
  \/ \E p \in BagToSet(inflight) : PublishSchedule(p)
  \/ \E t \in ClockInputs : Tick(t)

SpecConcurrent == InitRepublish /\ [][NextConcurrent]_vars

-----------------------------------------------------------------------------
(* What the claims speak of, read off the tables directly *)

\* The number of commentReports rows of reporter u on comment c
RowsFor(c, u) ==
  LET S == {r \in BagToSet(commentReports) : r.commentId = c /\ r.userId = u}
  IN BagCardinality([r \in S |-> commentReports[r]])

\* The number of commentReports rows that target comment c
RowsIn(reports, c) ==
  LET S == {r \in BagToSet(reports) : r.commentId = c}
  IN BagCardinality([r \in S |-> reports[r]])

RowsOn(c) == RowsIn(commentReports, c)

\* The number of audit entries of one action on comment c
AuditCount(log, c, action) ==
  Cardinality({i \in 1..Len(log) : log[i].targetId = c /\ log[i].action = action})

\* The number of stat events of one kind
StatCount(events, kind) ==
  Cardinality({i \in 1..Len(events) : events[i].kind = kind})

\* Visibility as the data model defines it
Visible(comment) ==
  comment.moderationStatus = "active" /\ comment.softDeletedAt = 0

NoWrite == UNCHANGED db /\ result'.writes = <<>>

\* The step processes a report call
ReportStep == result'.op = "report"

-----------------------------------------------------------------------------
(* C1 *)

UniqueReports ==
  \A r \in BagToSet(commentReports) : RowsFor(r.commentId, r.userId) = 1

\* The step processes a report call that arrived when its reporter had no row
\* on the comment, and finds the row a concurrent call of that reporter wrote.
LoserStep ==
  /\ ReportStep
  /\ result'.reads.rows = {}
  /\ RowsFor(result'.commentId, result'.userId) >= 1

\* C1 as claimed: at most one row per (commentId, reporterId) in every state,
\* and the call that loses the race returns {reported: false, alreadyReported:
\* true} without an error.
C1_Claimed ==
  /\ []UniqueReports
  /\ [][LoserStep /\ Trim(result'.reason) # <<>>
          => result'.error = "" /\ result'.ret = AlreadyReportedRet]_vars

\* C1, amended: at most one row per (commentId, reporterId) in every state;
\* the call that loses the race writes nothing, and it returns {reported:
\* false, alreadyReported: true} iff the comment is still visible when the call
\* is processed and its reason is not empty after trimming; if the winning
\* call auto-hid the comment, the loser fails with 'Comment is already hidden.'.
C1_UniqueAndLoser ==
  /\ []UniqueReports
  /\ [][LoserStep =>
          LET c == comments[result'.commentId] IN
          /\ NoWrite
          /\ (result'.error = "" /\ result'.ret = AlreadyReportedRet)
               <=> (Visible(c) /\ Trim(result'.reason) # <<>>)
          /\ c.moderationStatus = "hidden"
               => result'.error = "Comment is already hidden."]_vars

\* A call that lost the race has returned alreadyReported; one row exists.
C1_Witness ==
  /\ result.op = "report"
  /\ result.reads.rows = {}
  /\ result.ret = AlreadyReportedRet
  /\ RowsFor(result.commentId, result.userId) = 1

\* A call that lost the race against the auto-hiding call has failed.
C1_WitnessHidden ==
  /\ result.op = "report"
  /\ result.reads.rows = {}
  /\ result.error = "Comment is already hidden."
  /\ RowsFor(result.commentId, result.userId) = 1

-----------------------------------------------------------------------------
(* C2 *)

\* No delete, hide, restore or hard delete of comment c has happened.
NoModeration(c) ==
  \A i \in 1..Len(auditLogs) :
    auditLogs[i].targetId = c => auditLogs[i].action = "comment.auto_hide"

C2_State ==
  \A c \in DOMAIN comments :
    NoModeration(c) =>
      LET n == RowsOn(c) IN
      /\ n <= 4
      /\ n <= 3 => /\ Visible(comments[c])
                   /\ AuditCount(auditLogs, c, "comment.auto_hide") = 0
                   /\ StatCount(statEvents, "uncomment") = 0
      /\ n = 4 => /\ comments[c].moderationStatus = "hidden"
                  /\ comments[c].moderationReason = "auto.reports"
                  /\ AuditCount(auditLogs, c, "comment.auto_hide") = 1
                  /\ StatCount(statEvents, "uncomment") = 1

C2_Step ==
  LET c == result'.commentId IN
  (ReportStep /\ c \in DOMAIN comments /\ NoModeration(c)) =>
    LET n == RowsOn(c) IN
    /\ n >= 4 => result'.error = "Comment is already hidden." /\ NoWrite
    /\ result'.ret = ReportedRet =>
         /\ RowsIn(commentReports', c) = n + 1
         /\ n + 1 <= 3 => auditLogs' = auditLogs /\ statEvents' = statEvents
         /\ n + 1 = 4 =>
              /\ Len(auditLogs') = Len(auditLogs) + 1
              /\ auditLogs'[Len(auditLogs')].action = "comment.auto_hide"
              /\ statEvents' = Append(statEvents, [skillId |-> comments[c].skillId,
                                                   kind |-> "uncomment"])

\* C2: with no moderator action on a comment, it stays active through the
\* first 3 successful reports by distinct reporters, the 4th sets it hidden
\* with reason auto.reports, every later report call fails with 'Comment is
\* already hidden.' and writes nothing, and exactly one uncomment stat event
\* and one comment.auto_hide audit entry are produced.
C2_FourthReportHides == []C2_State /\ [][C2_Step]_vars

\* After the 4th report hid the comment, a further reporter's call has failed.
C2_Witness ==
  /\ 1 \in DOMAIN comments
  /\ NoModeration(1)
  /\ RowsOn(1) = 4
  /\ comments[1].moderationStatus = "hidden"
  /\ result.op = "report"
  /\ RowsFor(1, result.userId) = 0
  /\ result.error = "Comment is already hidden."

-----------------------------------------------------------------------------
(* C3 *)

C3_State ==
  \A c \in DOMAIN comments :
    /\ comments[c].reportCount = RowsOn(c)
    /\ AuditCount(auditLogs, c, "comment.auto_hide")
         = (IF comments[c].reportCount > 3 THEN 1 ELSE 0)
    /\ StatCount(statEvents, "uncomment")
         = AuditCount(auditLogs, c, "comment.auto_hide")
    /\ comments[c].reportCount > 3 <=> comments[c].moderationStatus = "hidden"

C3_Step ==
  LET c == result'.commentId IN
  (ReportStep /\ result'.ret = ReportedRet) =>
    /\ comments'[c].reportCount = comments[c].reportCount + 1
    /\ auditLogs' # auditLogs =>
         /\ Visible(comments[c])
         /\ AuditCount(auditLogs, c, "comment.auto_hide") = 0

\* C3: with report calls by distinct reporters on one comment in flight at the
\* same time, every successful call raises reportCount by one from the value
\* the store holds when the call is processed (no increment is lost), and at
\* most one call auto-hides: at most one uncomment stat event and one
\* comment.auto_hide audit entry.
C3_AtomicAutoHide == []C3_State /\ [][C3_Step]_vars

\* The auto-hiding call arrived when the comment had at most 2 reports: calls
\* that were in flight with it were processed before it and none was lost.
C3_Witness ==
  /\ result.op = "report"
  /\ result.ret = ReportedRet
  /\ result.reads.reportCount <= 2
  /\ 1 \in DOMAIN comments
  /\ comments[1].reportCount = 4
  /\ comments[1].moderationStatus = "hidden"

-----------------------------------------------------------------------------
(* C4 *)

\* The step processes a report call of a reporter who has a row on the comment.
RepeatStep ==
  ReportStep /\ RowsFor(result'.commentId, result'.userId) >= 1

\* C4 as claimed: every repetition of a report (here: with a reason, and with
\* no delete, hide or restore of the comment) returns {ok: true, reported:
\* false, alreadyReported: true} and writes nothing.
C4_Claimed ==
  [][RepeatStep /\ NoModeration(result'.commentId) /\ Trim(result'.reason) # <<>>
       => result'.error = "" /\ result'.ret = AlreadyReportedRet /\ NoWrite]_vars

\* C4, amended: every repetition of a report writes nothing; it returns {ok:
\* true, reported: false, alreadyReported: true} iff the comment is visible and
\* the reason is not empty after trimming, and otherwise fails: 'Comment not
\* found' on a removed comment, 'Comment is already hidden.' on a hidden one,
\* 'Report reason required.' on a visible one.
C4_RepeatWritesNothing ==
  [][RepeatStep =>
       LET c == comments[result'.commentId] IN
       /\ NoWrite
       /\ (result'.error = "" /\ result'.ret = AlreadyReportedRet)
            <=> (Visible(c) /\ Trim(result'.reason) # <<>>)
       /\ c.moderationStatus = "removed" => result'.error = "Comment not found"
       /\ c.moderationStatus = "hidden" => result'.error = "Comment is already hidden."
       /\ (Visible(c) /\ Trim(result'.reason) = <<>>)
            => result'.error = "Report reason required."]_vars

\* A reporter has repeated a report on a visible comment.
C4_Witness ==
  /\ result.op = "report"
  /\ result.reads.rows # {}
  /\ result.ret = AlreadyReportedRet
  /\ result.writes = <<>>
  /\ RowsFor(result.commentId, result.userId) = 1

-----------------------------------------------------------------------------
(* C5 *)

\* The reports of user u that are active: the target comment exists and is
\* visible, and its author exists and is neither deleted nor deactivated.
ActiveReports(u) ==
  LET S == {r \in BagToSet(commentReports) :
              /\ r.userId = u
              /\ r.commentId \in DOMAIN comments
              /\ Visible(comments[r.commentId])
              /\ comments[r.commentId].userId \in DOMAIN users
              /\ users[comments[r.commentId].userId].deletedAt = 0
              /\ users[comments[r.commentId].userId].deactivatedAt = 0}
  IN BagCardinality([r \in S |-> commentReports[r]])

\* All reports of user u
TotalReports(u) ==
  LET S == {r \in BagToSet(commentReports) : r.userId = u}
  IN BagCardinality([r \in S |-> commentReports[r]])

\* The step processes a report call, with a reason, on a visible comment that
\* the caller has not reported.
FreshReportStep ==
  /\ ReportStep
  /\ result'.commentId \in DOMAIN comments
  /\ Visible(comments[result'.commentId])
  /\ RowsFor(result'.commentId, result'.userId) = 0
  /\ Trim(result'.reason) # <<>>

\* C5: a report on a not yet reported visible comment by a reporter with 20
\* active reports fails with the rate-limit error and writes nothing; reports
\* on hidden, removed or purged comments and on comments of deactivated
\* authors do not count: with fewer than 20 active reports the call succeeds.
C5_ActiveReportCap ==
  [][FreshReportStep =>
       /\ ActiveReports(result'.userId) >= MAX_ACTIVE_REPORTS_PER_USER
            => result'.error = ReportLimitError /\ NoWrite
       /\ ActiveReports(result'.userId) < MAX_ACTIVE_REPORTS_PER_USER
            => result'.error = "" /\ result'.ret = ReportedRet]_vars

\* A report was refused at 20 active reports, while the reporter has more
\* than 20 reports in all: those that are not active were not counted.
C5_Witness ==
  /\ result.op = "report"
  /\ result.error = ReportLimitError
  /\ ActiveReports(result.userId) = MAX_ACTIVE_REPORTS_PER_USER
  /\ TotalReports(result.userId) > MAX_ACTIVE_REPORTS_PER_USER

\* A report was accepted from a reporter who had 20 reports, not all active.
C5_WitnessAccepted ==
  /\ result.op = "report"
  /\ result.ret = ReportedRet
  /\ TotalReports(result.userId) = MAX_ACTIVE_REPORTS_PER_USER + 1

-----------------------------------------------------------------------------
(* C6 *)

\* C6 as claimed: a report call whose reason is empty after trimming fails
\* with 'Report reason required.' whatever the state of the target comment,
\* and writes nothing.
C6_Claimed ==
  [][ReportStep /\ Trim(result'.reason) = <<>>
       => result'.error = "Report reason required." /\ NoWrite]_vars

-----------------------------------------------------------------------------
(* C7 *)

\* C7 as claimed: once a comment is removed, no operation other than hard
\* delete changes its moderationStatus or makes it visible again.
C7_Claimed ==
  [][\A c \in DOMAIN comments :
       (comments[c].moderationStatus = "removed" /\ result'.op # "hardDelete")
         => /\ c \in DOMAIN comments'
            /\ comments'[c].moderationStatus = "removed"
            /\ ~Visible(comments'[c])]_vars

-----------------------------------------------------------------------------
(* C8 *)

\* The step processes a remove call on an existing comment.
RemoveStep == result'.op = "remove" /\ result'.commentId \in DOMAIN comments

CallerMayRemove ==
  \/ comments[result'.commentId].userId = result'.userId
  \/ users[result'.userId].role \in {"moderator", "admin"}

\* C8 as claimed: remove on a hidden comment by its author or a moderator
\* sets the comment to removed.
C8_Claimed ==
  [][(RemoveStep /\ comments[result'.commentId].moderationStatus = "hidden"
        /\ CallerMayRemove)
       => comments'[result'.commentId].moderationStatus = "removed"]_vars

\* C8, amended: remove on a hidden comment returns without error, writes
\* nothing and leaves the comment hidden; remove by the author or a moderator
\* sets a comment to removed only if the comment is visible.
C8_RemoveOnlyFromVisible ==
  [][RemoveStep =>
       LET c == result'.commentId IN
       /\ comments[c].moderationStatus = "hidden"
            => /\ result'.error = ""
               /\ NoWrite
               /\ comments'[c].moderationStatus = "hidden"
       /\ (Visible(comments[c]) /\ CallerMayRemove)
            => /\ result'.error = ""
               /\ comments'[c].moderationStatus = "removed"]_vars

\* The author or a moderator has called remove on a hidden comment.
C8_Witness ==
  /\ result.op = "remove"
  /\ result.commentId \in DOMAIN comments
  /\ comments[result.commentId].moderationStatus = "hidden"
  /\ \/ comments[result.commentId].userId = result.userId
     \/ users[result.userId].role \in {"moderator", "admin"}
  /\ result.error = ""
  /\ result.writes = <<>>

-----------------------------------------------------------------------------
(* C9 *)

\* C9 as claimed: a setSoftDeleted request for the state the comment is in
\* (restore of an active comment, hide of a hidden one) writes nothing.
C9_Claimed ==
  [][(/\ result'.op = "setSoftDeleted"
      /\ result'.error = ""
      /\ result'.commentId \in DOMAIN comments
      /\ \/ ~result'.deleted /\ Visible(comments[result'.commentId])
         \/ result'.deleted /\ comments[result'.commentId].moderationStatus = "hidden")
       => /\ NoWrite
          /\ comments' = comments
          /\ auditLogs' = auditLogs
          /\ statEvents' = statEvents]_vars

-----------------------------------------------------------------------------
(* C10 *)

\* C10: remove on a comment that is hidden, removed or carries a soft-delete
\* timestamp returns without error and writes nothing.
C10_RemoveNoopWhenNotVisible ==
  [][(/\ RemoveStep
      /\ \/ comments[result'.commentId].moderationStatus \in {"hidden", "removed"}
         \/ comments[result'.commentId].softDeletedAt # 0)
       => /\ result'.error = ""
          /\ result'.ret = VoidRet
          /\ NoWrite]_vars

\* remove has been called on a comment that has no moderationStatus and
\* carries a soft-delete timestamp.
C10_Witness ==
  /\ result.op = "remove"
  /\ result.commentId \in DOMAIN comments
  /\ comments[result.commentId].moderationStatus = Undefined
  /\ comments[result.commentId].softDeletedAt # 0
  /\ result.error = ""
  /\ result.writes = <<>>

-----------------------------------------------------------------------------
(* C11 *)

IsModerator(u) == users[u].role \in {"moderator", "admin"}

\* C11: remove on a visible comment by its author, whatever the author's role,
\* succeeds and sets moderationStatus to removed; the same call by a user who
\* is neither the author nor a moderator fails with the permission error,
\* writes nothing and emits no stat event.
C11_RemovePermission ==
  [][(RemoveStep /\ Visible(comments[result'.commentId])) =>
       LET c == result'.commentId
           u == result'.userId
       IN
       /\ comments[c].userId = u
            => /\ result'.error = ""
               /\ comments'[c].moderationStatus = "removed"
       /\ (comments[c].userId # u /\ ~IsModerator(u))
            => /\ result'.error = PermissionError
               /\ NoWrite
               /\ statEvents' = statEvents]_vars

\* A user who is neither the author nor a moderator has called remove on a
\* visible comment and was refused.
C11_Witness ==
  /\ result.op = "remove"
  /\ result.commentId \in DOMAIN comments
  /\ Visible(comments[result.commentId])
  /\ comments[result.commentId].userId # result.userId
  /\ ~IsModerator(result.userId)
  /\ result.error = PermissionError

\* The author, who has no moderator role, has removed their comment.
C11_WitnessAuthor ==
  /\ result.op = "remove"
  /\ result.commentId \in DOMAIN comments
  /\ comments[result.commentId].userId = result.userId
  /\ ~IsModerator(result.userId)
  /\ comments[result.commentId].moderationStatus = "removed"
  /\ comments[result.commentId].moderationReason = "manual.user_delete"

-----------------------------------------------------------------------------
(* C12 *)

\* The step processes a setSoftDeleted call by a caller without moderator role
\* or a hardDelete call by a caller without admin role.
UnauthorizedStep ==
  \/ result'.op = "setSoftDeleted" /\ ~IsModerator(result'.userId)
  \/ result'.op = "hardDelete" /\ users[result'.userId].role # "admin"

\* C12: setSoftDeleted by a caller without moderator role and hardDelete by a
\* caller without admin role fail with the permission error and leave every
\* comment, report, audit entry and stat event unchanged.
C12_RoleGates ==
  [][UnauthorizedStep => result'.error = PermissionError /\ NoWrite]_vars

\* A moderator, who is no admin, has called hardDelete on an existing comment
\* and was refused.
C12_Witness ==
  /\ result.op = "hardDelete"
  /\ users[result.userId].role = "moderator"
  /\ result.commentId \in DOMAIN comments
  /\ result.error = PermissionError

\* A plain user has called setSoftDeleted on an existing comment and was refused.
C12_WitnessSetSoftDeleted ==
  /\ result.op = "setSoftDeleted"
  /\ users[result.userId].role = "user"
  /\ result.commentId \in DOMAIN comments
  /\ result.error = PermissionError

-----------------------------------------------------------------------------
(* C13 *)

\* Comment c exists in table cs and is visible.
VisibleIn(cs, c) == c \in DOMAIN cs /\ Visible(cs[c])

\* The step changes the visibility of an existing comment c.
VisibilityChanges(c) ==
  c \in DOMAIN comments /\ VisibleIn(comments, c) # VisibleIn(comments', c)

\* C13: every step that changes the visibility of an existing comment (remove
\* or moderator hide of a visible one, moderator restore of a non-visible one,
\* auto-hide by a report, hard delete of a visible one) emits exactly one stat
\* event, uncomment when the comment becomes invisible and comment when it
\* becomes visible, and appends exactly one audit entry, which targets it.
C13_VisibilityChangeEmitsOnce ==
  [][\A c \in DOMAIN comments :
       VisibilityChanges(c) =>
         /\ Len(statEvents') = Len(statEvents) + 1
         /\ SubSeq(statEvents', 1, Len(statEvents)) = statEvents
         /\ statEvents'[Len(statEvents')] =
              [skillId |-> comments[c].skillId,
               kind |-> IF VisibleIn(comments, c) THEN "uncomment" ELSE "comment"]
         /\ Len(auditLogs') = Len(auditLogs) + 1
         /\ auditLogs'[Len(auditLogs')].targetId = c
         /\ auditLogs'[Len(auditLogs')].action =
              (CASE result'.op = "remove" -> "comment.delete"
                 [] result'.op = "report" -> "comment.auto_hide"
                 [] result'.op = "hardDelete" -> "comment.hard_delete"
                 [] result'.op = "setSoftDeleted" ->
                      IF result'.deleted THEN "comment.hide" ELSE "comment.restore"
                 [] OTHER -> "none")]_vars

\* A moderator has restored a hidden comment: the second comment event.
C13_Witness ==
  /\ result.op = "setSoftDeleted"
  /\ ~result.deleted
  /\ result.error = ""
  /\ VisibleIn(comments, result.commentId)
  /\ StatCount(statEvents, "comment") = 2
  /\ StatCount(statEvents, "uncomment") = 1
  /\ statEvents[Len(statEvents)].kind = "comment"
  /\ auditLogs[Len(auditLogs)].action = "comment.restore"

-----------------------------------------------------------------------------
(* C14 *)

\* The step is a successful call of one of the moderation actions: a comment
\* added, deleted, hidden, restored, purged or reported (auto-hidden or not).
ModerationActionStep ==
  /\ result'.error = ""
  /\ result'.writes # <<>>
  /\ result'.op \in {"add", "remove", "setSoftDeleted", "hardDelete", "report"}

\* C14 as claimed: every successful add, delete, hide, restore, hard delete,
\* auto-hide and report appends exactly one audit entry.
C14_Claimed ==
  [][ModerationActionStep =>
       /\ Len(auditLogs') = Len(auditLogs) + 1
       /\ SubSeq(auditLogs', 1, Len(auditLogs)) = auditLogs
       /\ auditLogs'[Len(auditLogs')].targetId = result'.commentId]_vars

-----------------------------------------------------------------------------
(* C15 *)

\* The rows of table reports that do not target comment c
RowsNotOn(reports, c) ==
  LET S == {r \in BagToSet(reports) : r.commentId # c}
  IN [r \in S |-> reports[r]]

\* The step processes a hardDelete call by an admin on an existing comment.
PurgeStep ==
  /\ result'.op = "hardDelete"
  /\ users[result'.userId].role = "admin"
  /\ result'.commentId \in DOMAIN comments

\* C15: hardDelete by an admin on an existing comment deletes the comment and
\* every commentReports row that targets it (and no other row), appends exactly
\* one comment.hard_delete audit entry, and emits exactly one uncomment stat
\* event if the comment was visible beforehand and none otherwise.
C15_HardDeletePurges ==
  [][PurgeStep =>
       LET c == result'.commentId IN
       /\ result'.error = ""
       /\ result'.ret = DeletedRet(TRUE)
       /\ DOMAIN comments' = DOMAIN comments \ {c}
       /\ \A d \in DOMAIN comments' : comments'[d] = comments[d]
       /\ RowsIn(commentReports', c) = 0
       /\ commentReports' = RowsNotOn(commentReports, c)
       /\ Len(auditLogs') = Len(auditLogs) + 1
       /\ SubSeq(auditLogs', 1, Len(auditLogs)) = auditLogs
       /\ auditLogs'[Len(auditLogs')].action = "comment.hard_delete"
       /\ auditLogs'[Len(auditLogs')].targetId = c
       /\ auditLogs'[Len(auditLogs')].actorUserId = result'.userId
       /\ statEvents' = IF Visible(comments[c])
                        THEN Append(statEvents, [skillId |-> comments[c].skillId,
                                                 kind |-> "uncomment"])
                        ELSE statEvents]_vars

\* An admin has purged a comment that was not visible and had reports: the
\* rows are gone and no stat event was emitted.
C15_Witness ==
  /\ result.op = "hardDelete"
  /\ result.ret = DeletedRet(TRUE)
  /\ result.commentId \notin DOMAIN comments
  /\ \E i \in 1..Len(result.writes) : result.writes[i] = "delete commentReports"
  /\ \A i \in 1..Len(result.writes) : result.writes[i] # "stat uncomment"
  /\ commentReports = EmptyBag

\* An admin has purged a visible comment that had reports.
C15_WitnessVisible ==
  /\ result.op = "hardDelete"
  /\ result.ret = DeletedRet(TRUE)
  /\ \E i \in 1..Len(result.writes) : result.writes[i] = "delete commentReports"
  /\ statEvents # <<>>
  /\ statEvents[Len(statEvents)].kind = "uncomment"
  /\ Len(auditLogs) = 1

-----------------------------------------------------------------------------
(* C16 *)

\* C16: the audit log is append-only: every step leaves the entries appended
\* earlier in place and unmodified, also those whose target comment the step
\* hard-deletes.
C16_AuditAppendOnly ==
  [][/\ Len(auditLogs') >= Len(auditLogs)
     /\ SubSeq(auditLogs', 1, Len(auditLogs)) = auditLogs]_vars

\* A comment was hidden and then hard-deleted: the entry of the hide is still
\* in the log, before the entry of the hard delete.
C16_Witness ==
  /\ result.op = "hardDelete"
  /\ result.ret = DeletedRet(TRUE)
  /\ result.commentId \notin DOMAIN comments
  /\ Len(auditLogs) >= 2
  /\ auditLogs[Len(auditLogs)].action = "comment.hard_delete"
  /\ \E i \in 1..(Len(auditLogs) - 1) :
       /\ auditLogs[i].targetId = result.commentId
       /\ auditLogs[i].action = "comment.hide"

-----------------------------------------------------------------------------
(* C17 *)

\* The moderation status of a stored comment; a comment stored without the
\* field is hidden if it carries a soft-delete timestamp and active otherwise.
StatusOf(comment) ==
  IF comment.moderationStatus \in {"active", "hidden", "removed"}
  THEN comment.moderationStatus
  ELSE IF comment.softDeletedAt # 0 THEN "hidden" ELSE "active"

C17_State ==
  \A c \in DOMAIN comments :
    isCommentVisible(comments[c])
      <=> (StatusOf(comments[c]) = "active" /\ comments[c].softDeletedAt = 0)

C17_Step ==
  result'.op = "listBySkill" =>
    \A i \in 1..Len(result'.ret.items) :
      LET item == result'.ret.items[i] IN
      /\ item.id \in DOMAIN comments
      /\ item.comment = comments[item.id]
      /\ StatusOf(comments[item.id]) \notin {"hidden", "removed"}
      /\ comments[item.id].softDeletedAt = 0

\* C17: a comment is visible iff its moderation status is active and it has
\* no soft-delete timestamp, and listBySkill returns no comment that is hidden
\* or removed in the state it reads.
C17_VisibleOnlyListed == []C17_State /\ [][C17_Step]_vars

\* listBySkill has returned one comment and left out another that exists and
\* is hidden or removed.
C17_Witness ==
  /\ result.op = "listBySkill"
  /\ Len(result.ret.items) = 1
  /\ \E c \in DOMAIN comments :
       /\ StatusOf(comments[c]) \in {"hidden", "removed"}
       /\ c # result.ret.items[1].id

-----------------------------------------------------------------------------
(* C18 *)

\* The step processes a setSoftDeleted call by a moderator on an existing comment.
ModeratorStep ==
  /\ result'.op = "setSoftDeleted"
  /\ IsModerator(result'.userId)
  /\ result'.commentId \in DOMAIN comments

\* C18: a moderator restore of a hidden comment sets moderationStatus to active
\* and clears softDeletedAt, deletedBy, moderationReason, moderationNotes and
\* hiddenAt, so that the comment is visible, and emits exactly one comment stat
\* event; a moderator hide of an active comment sets moderationStatus to hidden
\* with reason manual.moderation and emits exactly one uncomment stat event.
C18_HideAndRestore ==
  [][ModeratorStep =>
       LET c == result'.commentId
           event(kind) == [skillId |-> comments[c].skillId, kind |-> kind]
       IN
       /\ (~result'.deleted /\ comments[c].moderationStatus = "hidden")
            => /\ result'.error = ""
               /\ comments'[c].moderationStatus = "active"
               /\ comments'[c].softDeletedAt = 0
               /\ comments'[c].deletedBy = Undefined
               /\ comments'[c].moderationReason = Undefined
               /\ comments'[c].moderationNotes = Undefined
               /\ comments'[c].hiddenAt = 0
               /\ Visible(comments'[c])
               /\ statEvents' = Append(statEvents, event("comment"))
       /\ (result'.deleted /\ Visible(comments[c]))
            => /\ result'.error = ""
               /\ comments'[c].moderationStatus = "hidden"
               /\ comments'[c].moderationReason = "manual.moderation"
               /\ ~Visible(comments'[c])
               /\ statEvents' = Append(statEvents, event("uncomment"))]_vars

\* A moderator has hidden a comment and restored it: it is active with the
\* moderation fields cleared, and the events are comment, uncomment, comment.
C18_Witness ==
  /\ result.op = "setSoftDeleted"
  /\ ~result.deleted
  /\ result.commentId \in DOMAIN comments
  /\ Visible(comments[result.commentId])
  /\ comments[result.commentId].moderationReason = Undefined
  /\ Len(auditLogs) = 2
  /\ auditLogs[1].action = "comment.hide"
  /\ auditLogs[2].action = "comment.restore"
  /\ Len(statEvents) = 3
  /\ statEvents[2].kind = "uncomment"
  /\ statEvents[3].kind = "comment"

-----------------------------------------------------------------------------
(* C19 *)

\* getTrustTier has been applied.
TierApplied == result.op = "getTrustTier" /\ result.applied

\* C19: the trust tier is low iff the account age is below 30 days or the
\* prior skill count is below 10; otherwise it is medium iff the age is below
\* 90 days or the count is below 50; otherwise it is trusted.
C19_TrustTier ==
  TierApplied =>
    LET lowCase == result.accountAgeMs.days < 30 \/ result.totalSkills < 10
        mediumCase == result.accountAgeMs.days < 90 \/ result.totalSkills < 50
    IN
    /\ result.accountAgeMs.ms \in 0..(DayMs - 1)
    /\ result.ret = "low" <=> lowCase
    /\ result.ret = "medium" <=> (~lowCase /\ mediumCase)
    /\ result.ret = "trusted" <=> (~lowCase /\ ~mediumCase)

\* An account one millisecond short of 30 days, with 50 skills, is low.
C19_Witness ==
  /\ TierApplied
  /\ result.accountAgeMs = Ms(29, DayMs - 1)
  /\ result.totalSkills = 50
  /\ result.ret = "low"

\* An account of exactly 90 days with 50 skills is trusted.
C19_WitnessTrusted ==
  /\ TierApplied
  /\ result.accountAgeMs = Ms(90, 0)
  /\ result.totalSkills = 50
  /\ result.ret = "trusted"

-----------------------------------------------------------------------------
(* C20 *)

\* evaluateQuality has been applied.
QualityApplied == result.op = "evaluateQuality" /\ result.applied

\* The floors and ceilings of the tiers, as the claim tabulates them
WordFloor == [low |-> 45, medium |-> 35, trusted |-> 28]
CharFloor == [low |-> 260, medium |-> 180, trusted |-> 140]
DuplicateCeiling == [low |-> 5, medium |-> 8, trusted |-> 12]

\* One of the hard-reject conditions holds for the call.
RejectCase ==
  \/ result.signals.bodyWords < WordFloor[result.trustTier]
  \/ result.signals.bodyChars < CharFloor[result.trustTier]
  \/ (result.signals.templateMarkerHits >= 3 /\ result.signals.bodyWords < 120)
  \/ result.similarRecentCount >= DuplicateCeiling[result.trustTier]

\* C20: for every combination of signals, tier and duplicate count the
\* decision is reject, whatever the score, iff the word count is below the
\* tier's floor (45, 35, 28), or the char count is below the tier's floor (260,
\* 180, 140), or there are at least 3 marketing-phrase hits and fewer than 120
\* words, or the duplicate count has reached the tier's ceiling (5, 8, 12).
C20_HardReject ==
  QualityApplied =>
    /\ result.ret.decision \in {"reject", "quarantine", "pass"}
    /\ result.ret.decision = "reject" <=> RejectCase

\* A document with the full score of 100 is rejected for its duplicate count.
C20_Witness ==
  /\ QualityApplied
  /\ result.ret.score = 100
  /\ result.similarRecentCount = 5
  /\ result.trustTier = "low"
  /\ result.ret.decision = "reject"

\* A document with a score of 0 at the floors of its tier is not rejected.
C20_WitnessNotRejected ==
  /\ QualityApplied
  /\ result.ret.score = 0
  /\ result.signals.bodyWords = 28
  /\ result.signals.bodyChars = 140
  /\ result.ret.decision = "quarantine"

-----------------------------------------------------------------------------
(* C21 *)

\* A thin-content condition holds for the call.
ThinCase ==
  \/ result.signals.bodyWords < WordFloor[result.trustTier]
  \/ result.signals.bodyChars < CharFloor[result.trustTier]
  \/ (result.signals.templateMarkerHits >= 3 /\ result.signals.bodyWords < 120)

DuplicateCase == result.similarRecentCount >= DuplicateCeiling[result.trustTier]

\* C21: whenever the decision is reject, the reason is the repeated-template-
\* spam reason iff the duplicate count has reached the tier's ceiling, also
\* when a thin-content condition holds as well, and the thin-content reason
\* otherwise.
C21_RejectReason ==
  (QualityApplied /\ result.ret.decision = "reject") =>
    /\ result.ret.reason = SpamReason <=> DuplicateCase
    /\ result.ret.reason = ThinReason <=> ~DuplicateCase

\* A thin document at the duplicate ceiling is rejected as template spam.
C21_Witness ==
  /\ QualityApplied
  /\ result.ret.decision = "reject"
  /\ ThinCase
  /\ DuplicateCase
  /\ result.ret.reason = SpamReason

-----------------------------------------------------------------------------
(* C22 *)

ScoreCeiling == [low |-> 72, medium |-> 60, trusted |-> 50]

\* C22: whenever no hard-reject condition holds, the decision is quarantine
\* iff the score is below the tier's ceiling (72, 60, 50) and pass otherwise;
\* a score equal to the ceiling passes.
C22_QuarantineOrPass ==
  (QualityApplied /\ ~RejectCase) =>
    /\ result.ret.decision = "quarantine"
         <=> result.ret.score < ScoreCeiling[result.trustTier]
    /\ result.ret.decision = "pass"
         <=> result.ret.score >= ScoreCeiling[result.trustTier]
    /\ result.ret.reason =
         (IF result.ret.decision = "pass" THEN PassReason ELSE QuarantineReason)

\* A document whose score equals the ceiling of its tier has passed.
C22_Witness ==
  /\ QualityApplied
  /\ ~RejectCase
  /\ result.ret.score = ScoreCeiling[result.trustTier]
  /\ result.ret.decision = "pass"

\* A document one penalty below the ceiling of its tier is quarantined.
C22_WitnessQuarantine ==
  /\ QualityApplied
  /\ ~RejectCase
  /\ result.ret.score < ScoreCeiling[result.trustTier]
  /\ result.ret.decision = "quarantine"

-----------------------------------------------------------------------------
(* C23 *)

\* scoreQuality has been applied.
ScoreApplied == result.op = "scoreQuality" /\ result.applied

\* The penalties of the claim other than the marketing penalty
FixedPenalties(signals) ==
  (IF signals.bodyChars < 250 THEN 28 ELSE 0)
  + (IF signals.bodyWords < 80 THEN 24 ELSE 0)
  + (IF 100 * signals.uniqueWordRatio.unique < 45 * signals.uniqueWordRatio.words
     THEN 14 ELSE 0)
  + (IF signals.headingCount < 2 THEN 10 ELSE 0)
  + (IF signals.bulletCount < 3 THEN 8 ELSE 0)
  + (IF signals.genericSummary THEN 20 ELSE 0)

\* C23: the score is max(0, 100 - penalties), the penalties being 28 for
\* fewer than 250 chars, 24 for fewer than 80 words, 14 for a unique-word ratio
\* below 0.45, 10 for fewer than 2 headings, 8 for fewer than 3 bullets, 20 for
\* a generic summary, and the marketing penalty, which is 9 per hit for up to
\* 3 hits and never more than 28; the score is an integer in 0..100.
C23_Score ==
  ScoreApplied =>
    LET hits == result.signals.templateMarkerHits
        rest == 100 - FixedPenalties(result.signals)
    IN
    /\ result.ret \in 0..100
    /\ \E penalty \in 0..28 :
         /\ hits <= 3 => penalty = 9 * hits
         /\ result.ret = (IF rest - penalty > 0 THEN rest - penalty ELSE 0)

\* With 8 marketing phrases and nothing else amiss the score is 72.
C23_Witness ==
  /\ ScoreApplied
  /\ result.signals.templateMarkerHits = 8
  /\ FixedPenalties(result.signals) = 0
  /\ result.ret = 72

\* A document with every penalty has the score 0.
C23_WitnessFloor ==
  /\ ScoreApplied
  /\ FixedPenalties(result.signals) = 104
  /\ result.ret = 0

-----------------------------------------------------------------------------
(* C24 *)

\* C24: of two signal records that differ only in word count, the one with
\* the smaller word count never has the higher score.
C24_MonotonicInWords ==
  ScoreApplied =>
    /\ result.otherWords <= result.signals.bodyWords => result.retOther <= result.ret
    /\ result.otherWords >= result.signals.bodyWords => result.retOther >= result.ret

\* A document of 80 words scores higher than the same with 79 words.
C24_Witness ==
  /\ ScoreApplied
  /\ result.signals.bodyWords = 80
  /\ result.otherWords = 79
  /\ result.retOther < result.ret

-----------------------------------------------------------------------------
(* C25 *)

\* evaluateQuality has been applied under every tier.
TiersApplied == result.op = "evaluateQuality.tiers" /\ result.applied

\* The order reject < quarantine < pass
DecisionRank == [reject |-> 0, quarantine |-> 1, pass |-> 2]

\* C25: for identical signals and duplicate count, the decision for medium is
\* at least the decision for low, and the decision for trusted at least the
\* decision for medium, in the order reject < quarantine < pass.
C25_HigherTierNotStricter ==
  TiersApplied =>
    /\ DecisionRank[result.ret["low"].decision]
         <= DecisionRank[result.ret["medium"].decision]
    /\ DecisionRank[result.ret["medium"].decision]
         <= DecisionRank[result.ret["trusted"].decision]

\* One document is rejected for low, quarantined for medium and passes for
\* trusted.
C25_Witness ==
  /\ TiersApplied
  /\ result.ret["low"].decision = "reject"
  /\ result.ret["medium"].decision = "quarantine"
  /\ result.ret["trusted"].decision = "pass"


-----------------------------------------------------------------------------
(* C30 *)

FingerprintApplied == result.op = "toStructuralFingerprint" /\ result.applied

\* The non-blank lines of a document, trimmed
NonBlankLines(text) ==
  LET split == SplitLines(text)
  IN SelectSeq([i \in 1..Len(split) |-> Trim(split[i])], LAMBDA line : line # <<>>)

\* The leading-syntax class of a line and the number of words behind it
LineClass(line) ==
  IF StartsWithAt(line, 1, <<"#", "#", "#", " ">>) THEN "h3"
  ELSE IF StartsWithAt(line, 1, <<"#", "#", " ">>) THEN "h2"
  ELSE IF StartsWithAt(line, 1, <<"#", " ">>) THEN "h1"
  ELSE IF BulletEnd(line) # 0 THEN "bullet"
  ELSE IF NumberedEnd(line) # 0 THEN "numbered"
  ELSE "paragraph"

LineWords(line) ==
  Len(tokenizeWords(
        IF LineClass(line) = "h3" THEN SliceFrom(line, 5)
        ELSE IF LineClass(line) = "h2" THEN SliceFrom(line, 4)
        ELSE IF LineClass(line) = "h1" THEN SliceFrom(line, 3)
        ELSE IF LineClass(line) = "bullet" THEN SliceFrom(line, BulletEnd(line))
        ELSE IF LineClass(line) = "numbered" THEN SliceFrom(line, NumberedEnd(line))
        ELSE line))

BucketOfCount(words) == IF words <= 2 THEN "s" ELSE IF words <= 6 THEN "m" ELSE "l"

\* The shape of a document: class and bucket of its first 80 non-blank lines
LineShapes(text) ==
  LET lines == Slice0(NonBlankLines(text), 80)
  IN  [i \in 1..Len(lines) |->
        <<LineClass(lines[i]), BucketOfCount(LineWords(lines[i]))>>]

\* The document does not begin with a metadata block: its first non-blank
\* line does not start with three dashes
NoLeadingBlock(text) ==
  NonBlankLines(text) = <<>>
    \/ ~StartsWithAt(NonBlankLines(text)[1], 1, <<"-", "-", "-">>)

\* C30 as stated: two documents that do not begin with a metadata block have
\* the same fingerprint if and only if their first 80 non-blank lines have,
\* line by line, the same class and the same word-count bucket; so a change
\* of one line's word count changes the fingerprint exactly when the count
\* crosses from 2 to 3 or from 6 to 7.
C30_Claimed ==
  (FingerprintApplied /\ NoLeadingBlock(result.markdown) /\ NoLeadingBlock(result.other))
    => ((LineShapes(result.markdown) = LineShapes(result.other))
          <=> (result.ret = result.retOther))


-----------------------------------------------------------------------------
(* C26 *)

\* The step taken is the given step of a publish call
PublishStepIs(step) ==
  /\ result' # result
  /\ result'.op = "publish"
  /\ result'.step = step

\* The document a call submits
SubmittedReadme(call) == findReadmeFile(call.args.files)[1].storageId

\* The primary document of a skill's latest version
LatestReadme(slug) ==
  findReadmeFile(skillVersions[skills[slug].latestVersionId].files)[1].storageId

\* The caller's other skills that were created within the last 24 hours and
\* have the fingerprint of the document the call submits
EarlierDuplicates(call) ==
  {s \in DOMAIN skills :
     /\ skills[s].ownerUserId = call.userId
     /\ s # call.slug
     /\ now - skills[s].createdAt <= QUALITY_WINDOW_MS
     /\ analysed.fingerprint[LatestReadme(s)] = analysed.fingerprint[SubmittedReadme(call)]}

\* The gate has assessed the call in the step taken
GateAssessed ==
  /\ PublishStepIs("gate")
  /\ result'.call.qualityAssessment # <<>>

\* C26 as stated: when a low-tier owner has published a document and
\* republished its fingerprint under new slugs, so that four skills with this
\* fingerprint were created within 24 hours, the next publish of the
\* fingerprint under a new slug, the fifth attempt overall, is rejected as
\* repeated template spam.
C26_Claimed ==
  [][(/\ GateAssessed
      /\ result'.call.isNewSkill
      /\ result'.call.qualityAssessment[1].trustTier = "low"
      /\ Cardinality(EarlierDuplicates(result'.call)) = 4)
       => (/\ result'.call.qualityAssessment[1].decision = "reject"
           /\ result'.error = SpamReason)]_vars


-----------------------------------------------------------------------------
(* C27 *)

\* The verdicts' error messages
QualityErrors == {ThinReason, SpamReason}

\* The step taken is insertVersion's, and it has inserted a version
VersionInserted ==
  /\ PublishStepIs("insert")
  /\ result'.error = ""

\* The version the step taken has inserted
InsertedVersion == skillVersions'[Len(skillVersions')]

\* C27: a publish to a slug that exists when the call looks it up never runs
\* the gate: no verdict is computed, the call does not fail with a verdict's
\* reason, and its version is persisted without quality assessment, whatever
\* the document's signals and the owner's duplicate count are.
C27_ExistingSlugSkipsGate ==
  [][/\ (PublishStepIs("lookup") /\ result'.error = "")
          => (result'.call.isNewSkill <=> result'.call.slug \notin DOMAIN skills)
     /\ (PublishStepIs("gate") /\ ~result'.call.isNewSkill)
          => /\ result'.call.qualityAssessment = <<>>
             /\ result'.error \notin QualityErrors
     /\ (VersionInserted /\ ~result'.call.isNewSkill)
          => /\ Len(skillVersions') = Len(skillVersions) + 1
             /\ InsertedVersion.slug = result'.call.slug
             /\ InsertedVersion.qualityAssessment = <<>>
             /\ InsertedVersion.metadata = <<>>]_vars

\* A version of an existing slug is persisted although its document is
\* ThinText, which the gate rejects under a new slug
C27_Witness ==
  /\ result.op = "publish"
  /\ result.step = "insert"
  /\ result.error = ""
  /\ ~result.call.isNewSkill
  /\ SubmittedReadme(result.call) = "thin"
  /\ evaluateQuality(analysed.signals["thin"], "low", 0).decision = "reject"
  /\ skillVersions[Len(skillVersions)].slug = result.call.slug
  /\ skillVersions[Len(skillVersions)].qualityAssessment = <<>>

-----------------------------------------------------------------------------
(* C28 *)

\* The gate has rejected the call in the step taken
GateRejected ==
  /\ GateAssessed
  /\ result'.call.qualityAssessment[1].decision = "reject"

\* C28: when the gate's verdict is reject, the publish fails with the
\* verdict's reason, the call is over, and neither a skill nor a version is
\* persisted nor a follow-up task scheduled; in every run a version of a new
\* slug is persisted only by a call whose verdict is pass or quarantine, and
\* tasks are scheduled only for persisted versions.
C28_RejectPersistsNothing ==
  [][/\ GateRejected
          => /\ result'.error = result'.call.qualityAssessment[1].reason
             /\ result'.error \in QualityErrors
             /\ BagCardinality(inflight') = BagCardinality(inflight) - 1
             /\ \A q \in BagToSet(inflight') : q.args # result'.call.args
             /\ UNCHANGED registry
     /\ (VersionInserted /\ result'.call.isNewSkill)
          => /\ result'.call.qualityAssessment # <<>>
             /\ result'.call.qualityAssessment[1].decision \in {"pass", "quarantine"}
     /\ (skills' # skills \/ skillVersions' # skillVersions) => VersionInserted
     /\ (scheduled' # scheduled)
          => /\ PublishStepIs("return")
             /\ result'.call.versionId \in 1..Len(skillVersions)
             /\ \A t \in BagToSet(scheduled') : t.target \in 1..Len(skillVersions)]_vars

\* A publish under a new slug has failed with the reason of its verdict, as
\* template spam, and its slug names no skill
C28_Witness ==
  /\ result.op = "publish"
  /\ result.step = "gate"
  /\ result.call.isNewSkill
  /\ result.call.qualityAssessment # <<>>
  /\ result.call.qualityAssessment[1].decision = "reject"
  /\ result.error = SpamReason
  /\ result.call.slug \notin DOMAIN skills
  /\ inflight = EmptyBag

-----------------------------------------------------------------------------
(* C29 *)

\* The call of the step taken has the verdict quarantine
Quarantined ==
  /\ result'.call.qualityAssessment # <<>>
  /\ result'.call.qualityAssessment[1].decision = "quarantine"

\* The errors of insertVersion's step, which do not depend on the verdict
InsertErrors == {"File missing in storage", "Embedding failed. Please try again."}

\* C29: when the gate's verdict is quarantine, the verdict raises no error
\* and the publish goes on as for pass: unless a file or the embedding
\* fails, the version is persisted as the latest of its skill with the
\* assessment attached, the follow-up tasks are scheduled, and the call
\* returns the skill and the version.
C29_QuarantinePersists ==
  [][/\ (GateAssessed /\ Quarantined)
          => /\ result'.error = ""
             /\ result'.call.pc = "insert"
             /\ BagIn(result'.call, inflight')
             /\ result'.call.qualityAssessment[1].reason = QuarantineReason
     /\ (PublishStepIs("insert") /\ Quarantined)
          => /\ result'.error \in {""} \cup InsertErrors
             /\ result'.error = ""
                  => /\ skillVersions'
                          = Append(skillVersions,
                                   [InsertedVersion EXCEPT
                                      !.qualityAssessment = result'.call.qualityAssessment])
                     /\ InsertedVersion.slug = result'.call.slug
                     /\ InsertedVersion.files = result'.call.args.files
                     /\ InsertedVersion.metadata # <<>>
                     /\ InsertedVersion.metadata[1].decision = "quarantine"
                     /\ skills'[result'.call.slug].latestVersionId = Len(skillVersions')
                     /\ BagIn([result'.call EXCEPT !.pc = "schedule"], inflight')
     /\ (PublishStepIs("return") /\ Quarantined)
          => /\ result'.error = ""
             /\ result'.ret = PublishResult(result'.call.slug, result'.call.versionId)
             /\ skillVersions[result'.call.versionId].qualityAssessment
                  = result'.call.qualityAssessment
             /\ scheduled'
                  = scheduled (+) followUpTasks(result'.call.slug, result'.call.versionId)]_vars

\* A quarantined publish has returned its version, which is persisted with
\* the assessment and is the latest of its skill
C29_Witness ==
  /\ result.op = "publish"
  /\ result.step = "return"
  /\ result.error = ""
  /\ result.call.qualityAssessment # <<>>
  /\ result.call.qualityAssessment[1].decision = "quarantine"
  /\ result.ret = PublishResult(result.call.slug, result.call.versionId)
  /\ skills[result.call.slug].latestVersionId = result.call.versionId
  /\ skillVersions[result.call.versionId].qualityAssessment
       = result.call.qualityAssessment


-----------------------------------------------------------------------------
(* C31 *)

\* The number of line tokens of a fingerprint
TokenCount(fingerprint) ==
  IF fingerprint = <<>> THEN 0
  ELSE 1 + Cardinality({i \in 1..Len(fingerprint) : fingerprint[i] = "|"})

\* The number of lines the fingerprint measures when every line is kept
KeptLines(text) ==
  IF Len(NonBlankLines(text)) < 80 THEN Len(NonBlankLines(text)) ELSE 80

\* C31 as stated: only a metadata block that starts on the first line is
\* removed; of a document that does not begin with a metadata block every
\* non-blank line, also one between two later lines of three dashes, is kept
\* and measured, so that its fingerprint has one token per non-blank line (up
\* to 80).
C31_Claimed ==
  FingerprintApplied =>
    /\ NoLeadingBlock(result.markdown)
         => TokenCount(result.ret) = KeptLines(result.markdown)
    /\ NoLeadingBlock(result.other)
         => TokenCount(result.retOther) = KeptLines(result.other)


-----------------------------------------------------------------------------
(* C32 *)

\* The entries the activity lists for the caller
ListedEntries(call) == {s \in DOMAIN skills : skills[s].ownerUserId = call.userId}

\* The entry was created within the last 24 hours and is not the submitted slug
InWindow(call, s) ==
  /\ s # call.slug
  /\ now - skills[s].createdAt <= QUALITY_WINDOW_MS

\* The entry has a latest version that is found
VersionFound(s) == skills[s].latestVersionId \in 1..Len(skillVersions)

\* The entry's latest version is found and has a primary document
DocumentFound(s) ==
  /\ VersionFound(s)
  /\ findReadmeFile(skillVersions[skills[s].latestVersionId].files) # <<>>

\* The entries that count: stored document with the submitted fingerprint
CountedEntries(call) ==
  {s \in ListedEntries(call) :
     /\ InWindow(call, s)
     /\ DocumentFound(s)
     /\ LatestReadme(s) \in DOMAIN analysed.fingerprint
     /\ analysed.fingerprint[LatestReadme(s)] = analysed.fingerprint[SubmittedReadme(call)]}

\* An entry in the window whose document is gone from storage
DocumentGone(call) ==
  \E s \in ListedEntries(call) :
    /\ InWindow(call, s)
    /\ DocumentFound(s)
    /\ LatestReadme(s) \notin DOMAIN analysed.fingerprint

\* C32: at the gate of a new skill, the similar-recent count is the number
\* of listed activity entries of the owner (here never more than 60) that
\* have a slug other than the submitted one, were created within the last
\* 24 hours, and whose latest version's primary document has the submitted
\* document's fingerprint; an entry without latest version, with a version
\* that is not found, or with a version without primary document is not
\* counted and raises no error: the gate step fails with a storage error
\* only when a document that is looked for is gone.
C32_CountOfDuplicates ==
  [][/\ GateAssessed
        => /\ Cardinality(ListedEntries(result'.call)) <= QUALITY_ACTIVITY_LIMIT
           /\ result'.call.qualityAssessment[1].similarRecentCount
                = Cardinality(CountedEntries(result'.call))
     /\ (PublishStepIs("gate") /\ result'.call.isNewSkill)
        => (result'.error = "File missing in storage" <=> DocumentGone(result'.call))
    ]_vars

\* A call has passed the gate with one counted entry while the owner had, in
\* the window, an entry without latest version, one whose version is not
\* found and one whose version has no primary document
C32_Witness ==
  /\ result.op = "publish"
  /\ result.step = "gate"
  /\ result.error = ""
  /\ result.call.qualityAssessment # <<>>
  /\ result.call.qualityAssessment[1].similarRecentCount = 1
  /\ \E s \in ListedEntries(result.call) :
       InWindow(result.call, s) /\ skills[s].latestVersionId = 0
  /\ \E s \in ListedEntries(result.call) :
       /\ InWindow(result.call, s)
       /\ skills[s].latestVersionId # 0
       /\ ~VersionFound(s)
  /\ \E s \in ListedEntries(result.call) :
       InWindow(result.call, s) /\ VersionFound(s) /\ ~DocumentFound(s)


-----------------------------------------------------------------------------
(* C33 *)

C33_State ==
  \A c \in DOMAIN comments : comments[c].reportCount = RowsOn(c)

C33_Step ==
  LET c == result'.commentId IN
  /\ (ReportStep /\ result'.ret = ReportedRet) =>
       /\ c \in DOMAIN comments /\ c \in DOMAIN comments'
       /\ BagCardinality(commentReports') = BagCardinality(commentReports) + 1
       /\ RowsIn(commentReports', c) = RowsOn(c) + 1
       /\ comments'[c].reportCount = comments[c].reportCount + 1
  /\ ~(ReportStep /\ result'.ret = ReportedRet) =>
       \A k \in DOMAIN comments :
         k \in DOMAIN comments' =>
           /\ comments'[k].reportCount = comments[k].reportCount
           /\ RowsIn(commentReports', k) = RowsOn(k)

\* C33: in every reachable state each comment's reportCount equals the
\* number of commentReports rows that target it; every successful report
\* inserts exactly one row and raises reportCount by exactly 1, and no other
\* call changes either of a comment that it leaves in the table.
C33_CountMatchesRows == []C33_State /\ [][C33_Step]_vars

\* A comment with three report rows has been hidden and restored by a
\* moderator, and a further call has just been processed on it
C33_Witness ==
  /\ 1 \in DOMAIN comments
  /\ RowsOn(1) = 3
  /\ comments[1].reportCount = 3
  /\ AuditCount(auditLogs, 1, "comment.hide") = 1
  /\ AuditCount(auditLogs, 1, "comment.restore") = 1
  /\ result.op = "remove"
  /\ result.error = ""


-----------------------------------------------------------------------------
(* C34 *)

\* The number of stat events of one kind on skill s
SkillStatCount(s, kind) ==
  Cardinality({i \in 1..Len(statEvents) :
                 statEvents[i].skillId = s /\ statEvents[i].kind = kind})

\* The skill's comments that are visible
VisibleComments(s) ==
  {c \in DOMAIN comments : comments[c].skillId = s /\ Visible(comments[c])}

\* The skills that comments or stat events name
SkillsNamed ==
  {comments[c].skillId : c \in DOMAIN comments}
    \cup {statEvents[i].skillId : i \in 1..Len(statEvents)}

\* C34: in every reachable state and for every skill, the number of comment
\* stat events minus the number of uncomment stat events equals the number
\* of the skill's visible comments.
C34_StatEventsBalance ==
  \A s \in SkillsNamed :
    SkillStatCount(s, "comment") - SkillStatCount(s, "uncomment")
      = Cardinality(VisibleComments(s))

\* A comment has been added, hidden and restored, and is visible again
C34_Witness ==
  /\ 1 \in DOMAIN comments
  /\ Visible(comments[1])
  /\ SkillStatCount(comments[1].skillId, "comment") = 2
  /\ SkillStatCount(comments[1].skillId, "uncomment") = 1
  /\ result.op = "setSoftDeleted"


-----------------------------------------------------------------------------
(* C35 *)

\* C35: for every comment created by add, in every reachable state the
\* soft-delete timestamp is set if and only if moderationStatus is hidden or
\* removed, so the two parts of the visibility test never disagree.
C35_TimestampMatchesStatus ==
  \A c \in DOMAIN comments :
    Truthy(comments[c].softDeletedAt)
      <=> comments[c].moderationStatus \in {"hidden", "removed"}

\* A comment created by add was hidden by reports, restored by a moderator,
\* and is being looked at after the restore: status active, no timestamp
C35_Witness ==
  /\ 1 \in DOMAIN comments
  /\ AuditCount(auditLogs, 1, "comment.auto_hide") = 1
  /\ AuditCount(auditLogs, 1, "comment.restore") = 1
  /\ result.op = "setSoftDeleted"
  /\ result.error = ""
  /\ comments[1].moderationStatus = "active"
  /\ ~Truthy(comments[1].softDeletedAt)


-----------------------------------------------------------------------------
(* C36 *)

\* The number of active reports of user u in the tables given
ActiveReportsIn(reports, cs, u) ==
  LET S == {r \in BagToSet(reports) :
              /\ r.userId = u
              /\ r.commentId \in DOMAIN cs
              /\ Visible(cs[r.commentId])
              /\ cs[r.commentId].userId \in DOMAIN users
              /\ users[cs[r.commentId].userId].deletedAt = 0
              /\ users[cs[r.commentId].userId].deactivatedAt = 0}
  IN BagCardinality([r \in S |-> reports[r]])

\* C36 as stated: in every reachable state, under any interleaving of
\* report, remove, hide, restore and hard-delete calls, no reporter has more
\* than 20 active reports.
C36_Claimed ==
  \A u \in DOMAIN users : ActiveReports(u) <= MAX_ACTIVE_REPORTS_PER_USER

\* C36, amended: a report succeeds only for a reporter with fewer than 20
\* active reports and leaves the reporter with at most 20; a reporter's
\* count of active reports comes to exceed 20 only by a moderator's restore
\* of a comment the reporter has reported, never by a report, remove, hide
\* or hard delete.
C36_CapAtReportTime ==
  [][\A u \in DOMAIN users :
       LET before == ActiveReports(u)
           after == ActiveReportsIn(commentReports', comments', u)
       IN
       /\ (ReportStep /\ result'.ret = ReportedRet /\ result'.userId = u)
            => /\ before < MAX_ACTIVE_REPORTS_PER_USER
               /\ after <= before + 1
       /\ (after > MAX_ACTIVE_REPORTS_PER_USER /\ after > before)
            => /\ result'.op = "setSoftDeleted"
               /\ result'.deleted = FALSE
               /\ result'.error = ""
               /\ RowsFor(result'.commentId, u) > 0
    ]_vars

\* The reporter has 21 active reports: a reported comment was hidden, two
\* further reports brought the count back to 20, and the comment was restored
C36_Witness ==
  /\ ActiveReports(CapReporter) = MAX_ACTIVE_REPORTS_PER_USER + 1
  /\ result.op = "setSoftDeleted"
  /\ result.deleted = FALSE
  /\ result.error = ""


-----------------------------------------------------------------------------
(* C37 *)

\* The commentReports rows that target comment c, with their multiplicity
RowsOf(reports, c) ==
  LET S == {r \in BagToSet(reports) : r.commentId = c}
  IN [r \in S |-> reports[r]]

\* The step is a moderator's restore of an existing comment
RestoreStep ==
  /\ result'.op = "setSoftDeleted"
  /\ result'.deleted = FALSE
  /\ result'.error = ""
  /\ result'.commentId \in DOMAIN comments

\* The comment was hidden by reports at some time and is visible now
RestoredAfterAutoHide(c) ==
  /\ c \in DOMAIN comments
  /\ Visible(comments[c])
  /\ AuditCount(auditLogs, c, "comment.auto_hide") >= 1
  /\ AuditCount(auditLogs, c, "comment.restore") >= 1

\* C37: a moderator's restore leaves reportCount, lastReportedAt and all
\* commentReports rows of the comment unchanged; so after an auto-hidden
\* comment is restored, the first successful report by a user who has not
\* reported it before hides it again and appends a further
\* comment.auto_hide audit entry.
C37_RestoreKeepsReports ==
  [][LET c == result'.commentId IN
     /\ RestoreStep
          => /\ comments'[c].reportCount = comments[c].reportCount
             /\ comments'[c].lastReportedAt = comments[c].lastReportedAt
             /\ RowsOf(commentReports', c) = RowsOf(commentReports, c)
             /\ commentReports' = commentReports
     /\ (ReportStep /\ result'.ret = ReportedRet /\ RestoredAfterAutoHide(c))
          => /\ RowsFor(c, result'.userId) = 0
             /\ comments'[c].moderationStatus = "hidden"
             /\ comments'[c].moderationReason = "auto.reports"
             /\ ~Visible(comments'[c])
             /\ AuditCount(auditLogs', c, "comment.auto_hide")
                  = AuditCount(auditLogs, c, "comment.auto_hide") + 1
             /\ auditLogs'[Len(auditLogs')].action = "comment.auto_hide"
    ]_vars

\* The comment was hidden by its fourth report, restored, and hidden again
\* by the report of a fifth user
C37_Witness ==
  /\ 1 \in DOMAIN comments
  /\ AuditCount(auditLogs, 1, "comment.auto_hide") = 2
  /\ AuditCount(auditLogs, 1, "comment.restore") = 1
  /\ RowsOn(1) = 5
  /\ comments[1].reportCount = 5
  /\ comments[1].moderationStatus = "hidden"
  /\ result.op = "report"
  /\ result.ret = ReportedRet


-----------------------------------------------------------------------------
(* C38 *)

\* The step is an admin's hardDelete of a comment that is not in the table
MissingPurgeStep ==
  /\ result'.op = "hardDelete"
  /\ users[result'.userId].role = "admin"
  /\ result'.commentId \notin DOMAIN comments

\* A comment has at most one comment.hard_delete entry, and a comment that
\* has one is gone
C38_State ==
  \A c \in CommentIdInputs :
    /\ AuditCount(auditLogs, c, "comment.hard_delete") <= 1
    /\ AuditCount(auditLogs, c, "comment.hard_delete") = 1 => c \notin DOMAIN comments

C38_Step ==
  /\ MissingPurgeStep
       => /\ result'.error = ""
          /\ result'.ret = DeletedRet(FALSE)
          /\ NoWrite
          /\ statEvents' = statEvents
          /\ auditLogs' = auditLogs
  /\ (result'.op = "hardDelete" /\ result'.ret = DeletedRet(TRUE))
       => LET c == result'.commentId IN
          /\ c \in DOMAIN comments
          /\ c \notin DOMAIN comments'
          /\ AuditCount(auditLogs', c, "comment.hard_delete") = 1
          /\ StatCount(statEvents', "uncomment") - StatCount(statEvents, "uncomment")
               = IF Visible(comments[c]) THEN 1 ELSE 0

\* C38: hardDelete called by an admin on a comment that does not exist
\* (never created, or already hard-deleted) returns {deleted: false},
\* writes nothing, emits no stat event and appends no audit entry; so two
\* hard deletes of one visible comment yield exactly one uncomment stat
\* event and one audit entry in total.
C38_RetryIsNoop == []C38_State /\ [][C38_Step]_vars

\* A visible comment was hard-deleted and the call was repeated: one
\* uncomment event and one audit entry
C38_Witness ==
  /\ 1 \notin DOMAIN comments
  /\ nextCommentId = 2
  /\ result.op = "hardDelete"
  /\ result.ret = DeletedRet(FALSE)
  /\ result.writes = <<>>
  /\ Len(auditLogs) = 1
  /\ AuditCount(auditLogs, 1, "comment.hard_delete") = 1
  /\ StatCount(statEvents, "uncomment") = 1
  /\ StatCount(statEvents, "comment") = 1


-----------------------------------------------------------------------------
(* C39 *)

\* The persisted skills of the owner
SkillsOf(u) == {s \in DOMAIN skills : skills[s].ownerUserId = u}

\* The owner's skills with the fingerprint of skill s that were created in
\* the 24 hours that begin with the creation of s
SameFingerprintFrom(s) ==
  {t \in SkillsOf(skills[s].ownerUserId) :
     /\ analysed.fingerprint[LatestReadme(t)] = analysed.fingerprint[LatestReadme(s)]
     /\ skills[t].createdAt >= skills[s].createdAt
     /\ skills[t].createdAt - skills[s].createdAt <= QUALITY_WINDOW_MS}

\* C39 as stated: for an owner who stays in the low tier and whose skills
\* are not updated after creation, the number of persisted skills that share
\* one structural fingerprint and were created within any 24-hour window
\* never exceeds 5, also when the owner's publish calls are processed
\* concurrently.
C39_Claimed ==
  \A s \in SkillsOf(PublishOwner) :
    Cardinality(SameFingerprintFrom(s)) <= similarityRejectThreshold("low")

====
